---- MODULE Spec2Model ----
(***************************************************************************)
(* A model of zzdats/go-cose: the algorithm registry, the header store,    *)
(* the Signer / Verifier constructors and primitives, the two message      *)
(* shapes and the Encode / Decode orchestration.                           *)
(*                                                                         *)
(* Modelling conventions                                                   *)
(*  - A Go interface{} value is a record [t, s, n]: its dynamic type, and  *)
(*    its string or its number.  int(1), int64(1) and "alg" are three      *)
(*    different map keys, as in Go.                                        *)
(*  - A map[interface{}]interface{} is a function from a finite set of     *)
(*    such keys to such values.                                            *)
(*  - The CBOR codec and the key primitives are trusted collaborators.     *)
(*    The codec is modelled by what it does to types (int and int64 both   *)
(*    become a CBOR integer, read back as int64; a nil byte slice becomes  *)
(*    null) and by a well-formedness flag on byte strings.  A signature    *)
(*    is ideal: it verifies only under the key, for the input and with     *)
(*    the scheme it was made with, and only while its bytes are unchanged. *)
(***************************************************************************)
EXTENDS Integers, Sequences, FiniteSets, TLC

VARIABLES
    msg,        \* the message object the producer builds (Sign1Message / SignMessage)
    wire,       \* the encoded bytes in flight, as the structure they encode
    enc,        \* the outcome of the last Encode call
    dec,        \* the outcome of the last Decode call, with the calls it made
    hA, hB,     \* two Headers instances under construction
    hM,         \* the result of MergeHeaders(hA, hB)
    hOps,       \* number of header operations applied so far
    hLast,      \* the last header operation and its outcome
    ctor,       \* the last NewSigner / NewVerifier call and its outcome
    prim,       \* the last Signer.Sign / Verifier.Verify call and its outcome
    inflight    \* the Encode / Decode calls running on the shared Encoding, by caller

vars == <<msg, wire, enc, dec, hA, hB, hM, hOps, hLast, ctor, prim, inflight>>

(***************************************************************************)
(* Go values                                                               *)
(***************************************************************************)
GoInt(n) == [t |-> "int", s |-> "", n |-> n]

GoInt64(n) == [t |-> "int64", s |-> "", n |-> n]

GoUint(n) == [t |-> "uint", s |-> "", n |-> n]

GoString(x) == [t |-> "string", s |-> x, n |-> 0]

GoBytes(x) == [t |-> "bytes", s |-> x, n |-> 0]

GoNil == [t |-> "nil", s |-> "", n |-> 0]

\* F of the value x, which F names once: "name := x" followed by the code F
With(x, F(_)) == F(x)

EmptyMap == [k \in {} |-> GoNil]

\* m[key] = value
MapPut(m, key, value) == [k \in (DOMAIN m) \cup {key} |-> IF k = key THEN value ELSE m[k]]

\* delete(m, key)
MapDelete(m, key) == [k \in (DOMAIN m) \ {key} |-> m[k]]

\* m[key], nil when absent
MapGet(m, key) == IF key \in DOMAIN m THEN m[key] ELSE GoNil

(***************************************************************************)
(* Errors                                                                  *)
(***************************************************************************)
NoError == [kind |-> "nil", arg |-> 0]

ErrUnsupportedKeyType == [kind |-> "ErrUnsupportedKeyType", arg |-> 0]

ErrUnavailableHashAlgorithm == [kind |-> "ErrUnavailableHashAlgorithm", arg |-> 0]

ErrUnsupportedAlgorithm == [kind |-> "ErrUnsupportedAlgorithm", arg |-> 0]

ErrAlgorithmNotMatchKey == [kind |-> "ErrAlgorithmNotMatchKey", arg |-> 0]

ErrInvalidEllipticCurve == [kind |-> "ErrInvalidEllipticCurve", arg |-> 0]

ErrVerification == [kind |-> "ErrVerification", arg |-> 0]

ErrMinKeySize(size) == [kind |-> "ErrMinKeySize", arg |-> size]

ErrUnsupportedMessageTag(tag) == [kind |-> "ErrUnsupportedMessageTag", arg |-> tag]

\* errors.New("key can not be nil")
ErrKeyNil == [kind |-> "key can not be nil", arg |-> 0]

\* errors.New("invalid key type")
ErrInvalidHeaderKeyType == [kind |-> "invalid key type", arg |-> 0]

\* an error of the CBOR codec (malformed data)
ErrCodec == [kind |-> "cbor", arg |-> 0]

\* the error the caller's GetVerifiers returned on its i-th call
ErrResolver(i) == [kind |-> "resolver", arg |-> i]

\* the error Signer.Sign builds with fmt.Errorf when r, s and D differ in length
ErrSanity == [kind |-> "s and r does not approximately match key D", arg |-> 0]

(***************************************************************************)
(* Algorithm registry                                                      *)
(***************************************************************************)
\* a registry entry that sets only Name and Value: the other fields are zero
Alg(name, value) ==
    [Name |-> name, Value |-> value, Type |-> "unsupported", Hash |-> "",
     MinKeySize |-> 0, CurveBits |-> 0]

algorithms ==
    <<
      Alg("RS1", -65535),
      Alg("WalnutDSA", -260),
      Alg("RS512", -259),
      Alg("RS384", -258),
      Alg("RS256", -257),
      Alg("ES256K", -47),
      Alg("HSS-LMS", -46),
      Alg("SHAKE256", -45),
      Alg("SHA-512", -44),
      Alg("SHA-384", -43),
      Alg("RSAES-OAEP w/ SHA-512", -42),
      Alg("RSAES-OAEP w/ SHA-256", -41),
      Alg("RSAES-OAEP w/ RFC 8017 default parameters", -40),
      [Name |-> "PS512", Value |-> -39, Type |-> "RSA", Hash |-> "SHA512", MinKeySize |-> 2048, CurveBits |-> 0],
      [Name |-> "PS384", Value |-> -38, Type |-> "RSA", Hash |-> "SHA384", MinKeySize |-> 2048, CurveBits |-> 0],
      [Name |-> "PS256", Value |-> -37, Type |-> "RSA", Hash |-> "SHA256", MinKeySize |-> 2048, CurveBits |-> 0],
      [Name |-> "ES512", Value |-> -36, Type |-> "ECDSA", Hash |-> "SHA512", MinKeySize |-> 0, CurveBits |-> 521],
      [Name |-> "ES384", Value |-> -35, Type |-> "ECDSA", Hash |-> "SHA384", MinKeySize |-> 0, CurveBits |-> 384],
      Alg("ECDH-SS + A256KW", -34),
      Alg("ECDH-SS + A192KW", -33),
      Alg("ECDH-SS + A128KW", -32),
      Alg("ECDH-ES + A256KW", -31),
      Alg("ECDH-ES + A192KW", -30),
      Alg("ECDH-ES + A128KW", -29),
      Alg("ECDH-SS + HKDF-512", -28),
      Alg("ECDH-SS + HKDF-256", -27),
      Alg("ECDH-ES + HKDF-512", -26),
      Alg("ECDH-ES + HKDF-256", -25),
      Alg("SHAKE128", -18),
      Alg("SHA-512/256", -17),
      Alg("SHA-256", -16),
      Alg("SHA-256/64", -15),
      Alg("SHA-1", -14),
      Alg("direct+HKDF-AES-256", -13),
      Alg("direct+HKDF-AES-128", -12),
      Alg("direct+HKDF-SHA-512", -11),
      Alg("direct+HKDF-SHA-256", -10),
      [Name |-> "EdDSA", Value |-> -8, Type |-> "ED25519", Hash |-> "", MinKeySize |-> 0, CurveBits |-> 0],
      [Name |-> "ES256", Value |-> -7, Type |-> "ECDSA", Hash |-> "SHA256", MinKeySize |-> 0, CurveBits |-> 256],
      Alg("direct", -6),
      Alg("A256KW", -5),
      Alg("A192KW", -4),
      Alg("A128KW", -3),
      Alg("A128GCM", 1),
      Alg("A192GCM", 2),
      Alg("A256GCM", 3),
      Alg("HMAC 256/64", 4),
      Alg("HMAC 256/256", 5),
      Alg("HMAC 384/384", 6),
      Alg("HMAC 512/512", 7),
      Alg("AES-CCM-16-64-128", 10),
      Alg("AES-CCM-16-64-256", 11),
      Alg("AES-CCM-64-64-128", 12),
      Alg("AES-CCM-64-64-256", 13),
      Alg("AES-MAC 128/64", 14),
      Alg("AES-MAC 256/64", 15),
      Alg("ChaCha20/Poly1305", 24),
      Alg("AES-MAC 128/128", 25),
      Alg("AES-MAC 256/128", 26),
      Alg("AES-CCM-16-128-128", 30),
      Alg("AES-CCM-16-128-256", 31),
      Alg("AES-CCM-64-128-128", 32),
      Alg("AES-CCM-64-128-256", 33),
      Alg("IV-GENERATION", 34)
    >>

\* a nil *algorithm
NilAlgorithm == [Name |-> "", Value |-> 0, Type |-> "nil", Hash |-> "", MinKeySize |-> 0, CurveBits |-> 0]

\* the first entry of the table with the name, or nil
getAlg(name) ==
    With({i \in 1..Len(algorithms) : algorithms[i].Name = name}, LAMBDA hits :
        IF hits = {} THEN NilAlgorithm
        ELSE algorithms[CHOOSE i \in hits : \A j \in hits : i <= j])

\* the first entry of the table with the value, or nil
getAlgByValue(value) ==
    With({i \in 1..Len(algorithms) : algorithms[i].Value = value}, LAMBDA hits :
        IF hits = {} THEN NilAlgorithm
        ELSE algorithms[CHOOSE i \in hits : \A j \in hits : i <= j])

\* the seven Algorithm constants
SigningAlgorithms == {"PS256", "PS384", "PS512", "ES512", "ES384", "ES256", "EdDSA"}

(***************************************************************************)
(* Header store                                                            *)
(***************************************************************************)
NewHeaders == [protected |-> EmptyMap, unprotected |-> EmptyMap]

\* h after h.Merge(other): other's protected entries are copied first, then
\* other's unprotected entries whose key is not protected in h by then
Merge(h, other) ==
    LET prot == [k \in (DOMAIN h.protected) \cup (DOMAIN other.protected) |->
                    IF k \in DOMAIN other.protected THEN other.protected[k]
                    ELSE h.protected[k]]
        kept == {k \in DOMAIN other.unprotected : k \notin DOMAIN prot}
        unprot == [k \in (DOMAIN h.unprotected) \cup kept |->
                    IF k \in kept THEN other.unprotected[k] ELSE h.unprotected[k]]
    IN  [protected |-> prot, unprotected |-> unprot]

MergeHeaders(h1, h2) == Merge(Merge(NewHeaders, h1), h2)

\* a switch that lost its last case
getCommonHeaderShort(key) ==
    CASE key = "alg" -> 1
      [] key = "crit" -> 2
      [] key = "content type" -> 3
      [] key = "kid" -> 4
      [] key = "IV" -> 5
      [] key = "Partial IV" -> 6
      [] OTHER -> 0

getCommonHeader(key) ==
    CASE key = "alg" -> 1
      [] key = "crit" -> 2
      [] key = "content type" -> 3
      [] key = "kid" -> 4
      [] key = "IV" -> 5
      [] key = "Partial IV" -> 6
      [] key = "counter signature" -> 7
      [] OTHER -> 0

\* a setter that stores every value as given
ResolveAlgNone(label, value) == value

\* SetProtected, case int64: the value stored under the label ("Reslove alg value")
ResolveAlg(label, value) ==
    IF label = 1 /\ value.t = "string"
    THEN With(getAlg(value.s), LAMBDA a :
            IF a # NilAlgorithm THEN GoInt64(a.Value) ELSE value)
    ELSE value

RECURSIVE SetProtectedAnyKey(_, _, _)
\* a SetProtected whose default case stores the value under the key as given
SetProtectedAnyKey(h, key, value) ==
    IF key.t = "string" THEN
        IF getCommonHeader(key.s) # 0
        THEN SetProtectedAnyKey(h, GoInt64(getCommonHeader(key.s)), value)
        ELSE [h |-> [h EXCEPT !.protected = MapPut(@, key, value)], err |-> NoError]
    ELSE IF key.t = "int" THEN SetProtectedAnyKey(h, GoInt64(key.n), value)
    ELSE IF key.t = "int64" THEN
        [h |-> [h EXCEPT !.protected = MapPut(@, key, ResolveAlg(key.n, value))],
         err |-> NoError]
    ELSE [h |-> [h EXCEPT !.protected = MapPut(@, key, value)], err |-> NoError]

RECURSIVE SetProtected(_, _, _)
\* h.SetProtected(key, value): the headers afterwards and the error returned
SetProtected(h, key, value) ==
    IF key.t = "string" THEN
        IF getCommonHeader(key.s) # 0
        THEN SetProtected(h, GoInt64(getCommonHeader(key.s)), value)
        ELSE [h |-> [h EXCEPT !.protected = MapPut(@, key, value)], err |-> NoError]
    ELSE IF key.t = "int" THEN SetProtected(h, GoInt64(key.n), value)
    ELSE IF key.t = "int64" THEN
        [h |-> [h EXCEPT !.protected = MapPut(@, key, ResolveAlg(key.n, value))],
         err |-> NoError]
    ELSE [h |-> h, err |-> ErrInvalidHeaderKeyType]

RECURSIVE GetProtected(_, _)
\* h.GetProtected(key): the value and the error returned
GetProtected(h, key) ==
    IF key.t = "string" THEN
        IF getCommonHeader(key.s) # 0
        THEN GetProtected(h, GoInt64(getCommonHeader(key.s)))
        ELSE [v |-> MapGet(h.protected, key), err |-> NoError]
    ELSE IF key.t = "int" THEN GetProtected(h, GoInt64(key.n))
    ELSE IF key.t = "int64" THEN
        With(MapGet(h.protected, key), LAMBDA value :
        With(IF key.n = 1 /\ value.t \in {"int", "int64"}
             THEN getAlgByValue(value.n) ELSE NilAlgorithm, LAMBDA a :
            IF a # NilAlgorithm THEN [v |-> GoString(a.Name), err |-> NoError]
            ELSE [v |-> value, err |-> NoError]))
    ELSE [v |-> GoNil, err |-> ErrInvalidHeaderKeyType]

\* a Set that forces only the algorithm label into protected
MustBeProtectedAlgOnly(label) == label = 1

\* Headers.Set, case int64: "alg and crit MUST be set in protected headers"
MustBeProtected(label) == label = 1 \/ label = 2

RECURSIVE Set(_, _, _)
\* h.Set(key, value): the headers afterwards and the error returned
Set(h, key, value) ==
    IF key.t = "string" THEN
        IF getCommonHeader(key.s) # 0
        THEN Set(h, GoInt64(getCommonHeader(key.s)), value)
        ELSE [h |-> [h EXCEPT !.unprotected = MapPut(@, key, value)], err |-> NoError]
    ELSE IF key.t = "int" THEN Set(h, GoInt64(key.n), value)
    ELSE IF key.t = "int64" THEN
        IF MustBeProtected(key.n) THEN SetProtected(h, key, value)
        ELSE [h |-> [h EXCEPT !.unprotected = MapPut(@, key, value)], err |-> NoError]
    ELSE [h |-> h, err |-> ErrInvalidHeaderKeyType]

RECURSIVE Get(_, _)
\* h.Get(key): the value and the error returned
Get(h, key) ==
    With(GetProtected(h, key), LAMBDA p :
        IF p.err # NoError THEN [v |-> GoNil, err |-> p.err]
        ELSE IF p.v # GoNil THEN p
        ELSE IF key.t = "string" THEN
            IF getCommonHeader(key.s) # 0
            THEN Get(h, GoInt64(getCommonHeader(key.s)))
            ELSE [v |-> MapGet(h.unprotected, key), err |-> NoError]
        ELSE IF key.t = "int" THEN Get(h, GoInt64(key.n))
        ELSE IF key.t = "int64" THEN [v |-> MapGet(h.unprotected, key), err |-> NoError]
        ELSE [v |-> GoNil, err |-> ErrInvalidHeaderKeyType])

\* a Delete that looks the key up as given
DeleteKeyAsGiven(key) == key

\* the map key Delete removes
DeleteKey(key) ==
    IF key.t = "string" /\ getCommonHeader(key.s) # 0 THEN GoInt64(getCommonHeader(key.s))
    ELSE IF key.t = "int" THEN GoInt64(key.n)
    ELSE key

\* h after h.Delete(key)
Delete(h, key) ==
    [protected |-> MapDelete(h.protected, DeleteKey(key)),
     unprotected |-> MapDelete(h.unprotected, DeleteKey(key))]

(***************************************************************************)
(* Keys.  A key is its family (the Go type: *rsa.PrivateKey / PublicKey,   *)
(* *ecdsa.PrivateKey / PublicKey, ed25519.PrivateKey / PublicKey, or any   *)
(* other type), its part, its size in bits (the RSA modulus bit length,    *)
(* the curve's BitSize), the identity of the key pair and, for an ECDSA    *)
(* private key, the bit length of its scalar D.                            *)
(***************************************************************************)
Key(fam, part, bits, id) ==
    [fam |-> fam, part |-> part, bits |-> bits, id |-> id,
     dBits |-> IF fam = "ECDSA" /\ part = "private" THEN bits ELSE 0]

\* a nil crypto.PrivateKey / crypto.PublicKey
NilKey == Key("nil", "nil", 0, 0)

\* k.Public()
Public(k) == [k EXCEPT !.part = "public", !.dBits = 0]

\* Size() of an RSA key: the modulus size in bytes
RSASize(k) == (k.bits + 7) \div 8

\* the size in bits NewSigner and NewVerifier compare with MinKeySize
RSAKeyBits(k) == RSASize(k) * 8

NilSigner == [Headers |-> NewHeaders, privateKey |-> NilKey, alg |-> NilAlgorithm]

NilVerifier == [publicKey |-> NilKey, alg |-> NilAlgorithm]

\* a switch over the key's type that never compares the key with the algorithm
SignerKeyErrorAnyFamily(a, key) ==
    IF key.fam \in {"RSA", "ECDSA", "ED25519"} /\ key.part = "private"
    THEN NoError ELSE ErrUnsupportedKeyType

\* NewSigner's switch over the key's type: the error, nil when the key is accepted
SignerKeyError(a, key) ==
    CASE key.fam = "RSA" /\ key.part = "private" ->
            IF a.Type # "RSA" THEN ErrAlgorithmNotMatchKey
            ELSE IF a.MinKeySize > 0 /\ a.MinKeySize > RSAKeyBits(key)
                 THEN ErrMinKeySize(a.MinKeySize)
                 ELSE NoError
      [] key.fam = "ECDSA" /\ key.part = "private" ->
            IF a.Type # "ECDSA" THEN ErrAlgorithmNotMatchKey
            ELSE IF a.CurveBits # key.bits THEN ErrInvalidEllipticCurve
                 ELSE NoError
      [] key.fam = "ED25519" /\ key.part = "private" ->
            IF a.Type # "ED25519" THEN ErrAlgorithmNotMatchKey ELSE NoError
      [] OTHER -> ErrUnsupportedKeyType

\* NewVerifier's switch over the key's type: the error, nil when the key is accepted
VerifierKeyError(a, key) ==
    CASE key.fam = "RSA" /\ key.part = "public" ->
            IF a.Type # "RSA" THEN ErrAlgorithmNotMatchKey
            ELSE IF a.MinKeySize > 0 /\ a.MinKeySize > RSAKeyBits(key)
                 THEN ErrMinKeySize(a.MinKeySize)
                 ELSE NoError
      [] key.fam = "ECDSA" /\ key.part = "public" ->
            IF a.Type # "ECDSA" THEN ErrAlgorithmNotMatchKey
            ELSE IF a.CurveBits # key.bits THEN ErrInvalidEllipticCurve
                 ELSE NoError
      [] key.fam = "ED25519" /\ key.part = "public" ->
            IF a.Type # "ED25519" THEN ErrAlgorithmNotMatchKey ELSE NoError
      [] OTHER -> ErrUnsupportedKeyType

\* a test that rejects only names absent from the table
UnsupportedNilOnly(a) == a = NilAlgorithm

\* getAlg found no entry, or one that cannot sign
Unsupported(a) == a = NilAlgorithm \/ a.Type = "unsupported"

\* NewSigner(alg, key): the signer (nil on error) and the error
NewSigner(alg, key) ==
    With(getAlg(alg), LAMBDA a :
    With(SignerKeyError(a, key), LAMBDA e :
        IF key = NilKey THEN [s |-> NilSigner, err |-> ErrKeyNil]
        ELSE IF Unsupported(a) THEN [s |-> NilSigner, err |-> ErrUnsupportedAlgorithm]
        ELSE IF e # NoError THEN [s |-> NilSigner, err |-> e]
        ELSE [s |-> [Headers |-> NewHeaders, privateKey |-> key, alg |-> a],
              err |-> NoError]))

\* NewVerifier(alg, key): the verifier (nil on error) and the error
NewVerifier(alg, key) ==
    With(getAlg(alg), LAMBDA a :
    With(VerifierKeyError(a, key), LAMBDA e :
        IF key = NilKey THEN [v |-> NilVerifier, err |-> ErrKeyNil]
        ELSE IF Unsupported(a) THEN [v |-> NilVerifier, err |-> ErrUnsupportedAlgorithm]
        ELSE IF e # NoError THEN [v |-> NilVerifier, err |-> e]
        ELSE [v |-> [publicKey |-> key, alg |-> a], err |-> NoError]))

(***************************************************************************)
(* The codec, as far as the program depends on it                          *)
(***************************************************************************)
\* encMode.Marshal of a header label or value: the CBOR item
MarshalValue(x) ==
    CASE x.t \in {"int", "int64", "uint"} -> [t |-> "int", s |-> "", n |-> x.n]
      [] x.t = "string" -> [t |-> "tstr", s |-> x.s, n |-> 0]
      [] x.t = "bytes" -> [t |-> "bstr", s |-> x.s, n |-> 0]
      [] OTHER -> [t |-> "null", s |-> "", n |-> 0]

\* decMode.Unmarshal of a CBOR item into interface{} (IntDecConvertSigned: every
\* integer is read as int64); an item of another kind becomes a Go value of a
\* type the header setters reject
UnmarshalValue(w) ==
    CASE w.t = "int" -> GoInt64(w.n)
      [] w.t = "tstr" -> GoString(w.s)
      [] w.t = "bstr" -> GoBytes(w.s)
      [] w.t = "null" -> GoNil
      [] OTHER -> [t |-> "float64", s |-> w.s, n |-> w.n]

\* encMode.Marshal of a map[interface{}]interface{}: the CBOR map
MarshalMap(m) ==
    [wk \in {MarshalValue(k) : k \in DOMAIN m} |->
        MarshalValue(m[CHOOSE k \in DOMAIN m : MarshalValue(k) = wk])]

\* a byte string that holds an encoded map (form "map"), bytes that are no
\* CBOR map (form "malformed"), or no byte string (form "absent")
MapBytes(wm) == [form |-> "map", m |-> wm]

MalformedBytes == [form |-> "malformed", m |-> EmptyMap]

AbsentBytes == [form |-> "absent", m |-> EmptyMap]

\* Encoding.marshal of a protected header map
MarshalProtected(m) == MapBytes(MarshalMap(m))

\* the to-be-signed array, which Encoding.marshal serializes
ToBeSigned(context, bodyProtected, signProtected, external, payload) ==
    [context |-> context, bodyProtected |-> bodyProtected,
     signProtected |-> signProtected, external |-> external, payload |-> payload]

NilDigest == ToBeSigned("", AbsentBytes, AbsentBytes, "", "")

(***************************************************************************)
(* Signer and Verifier                                                     *)
(***************************************************************************)
\* a signer that never pre-hashes
SignerGetHashNone(s) == ""

\* Signer.GetHash
SignerGetHash(s) == s.alg.Hash

\* a verifier that hashes with SHA-256 whatever its algorithm
VerifierGetHashSHA256(v) == "SHA256"

\* Verifier.GetHash
VerifierGetHash(v) == v.alg.Hash

\* a GetHeaders that merges in the other order, so that the signer's own
\* headers override the algorithm header
GetHeadersOwnWins(s) ==
    With(SetProtected(NewHeaders, GoString("alg"), GoInt64(s.alg.Value)), LAMBDA r :
        IF r.err # NoError THEN [h |-> NewHeaders, err |-> r.err]
        ELSE [h |-> MergeHeaders(r.h, s.Headers), err |-> NoError])

\* Signer.GetHeaders: the signer's headers merged with the protected algorithm header
GetHeaders(s) ==
    With(SetProtected(NewHeaders, GoString("alg"), GoInt64(s.alg.Value)), LAMBDA r :
        IF r.err # NoError THEN [h |-> NewHeaders, err |-> r.err]
        ELSE [h |-> MergeHeaders(s.Headers, r.h), err |-> NoError])

\* Signer.ToVerifier
ToVerifier(s) ==
    IF s.privateKey.fam \in {"RSA", "ECDSA", "ED25519"} /\ s.privateKey.part = "private"
    THEN NewVerifier(s.alg.Name, Public(s.privateKey))
    ELSE [v |-> NilVerifier, err |-> ErrUnsupportedKeyType]

\* the bits of a big.Word
WordBits == 64

\* len(x.Bits()) of a big.Int of the given bit length: its number of words
Words(bitLen) == (bitLen + WordBits - 1) \div WordBits

\* a comparison that takes equal lengths only
approxEqualExact(x, y) == x = y

\* approxEqual: x and y are equal within delta 1
approxEqual(x, y) == IF x > y THEN x - y <= 1 ELSE y - x <= 1

curveByteSize(bitSize) == IF bitSize % 8 > 0 THEN (bitSize \div 8) + 1 ELSE bitSize \div 8

\* what Sign and Verify hand to the key primitive: the digest hashed when the
\* algorithm names a hash (hash > 0), the digest itself otherwise
Prehash(hash, digest) == [hash |-> hash, data |-> digest]

\* a signature: the scheme and the key pair that made it, the input it was made
\* for, its length in bytes, and whether its bytes are still those produced
Signature(scheme, pub, input, len) ==
    [scheme |-> scheme, pub |-> pub, input |-> input, len |-> len, intact |-> TRUE]

NilSignature ==
    [scheme |-> "nil", pub |-> NilKey, input |-> Prehash("", NilDigest), len |-> 0,
     intact |-> FALSE]

\* len(b.Bytes()) of a big.Int of the given bit length: its minimal big-endian length
BytesLen(bitLen) == (bitLen + 7) \div 8

\* an i2osp that returns the minimal big-endian bytes of b, without padding
i2ospMinimal(bitLen, n) ==
    [zeros |-> 0, body |-> BytesLen(bitLen), panicked |-> n = 0 \/ BytesLen(bitLen) > n]

\* i2osp(b, n): n bytes, the bytes of b after n - len(b.Bytes()) zero bytes; it
\* panics when b needs more than n bytes
i2osp(bitLen, n) ==
    [zeros |-> n - BytesLen(bitLen), body |-> BytesLen(bitLen),
     panicked |-> n = 0 \/ BytesLen(bitLen) > n]

\* the length of an octet string i2osp returned
OctetLen(o) == o.zeros + o.body

\* Signer.Sign(rand, digest): the signature and the error.  rnd is what the
\* random source leads to for ECDSA: the bit lengths of r and s.  halves are
\* the two octet strings an ECDSA signature is appended from
Sign(s, rnd, digest) ==
    With(s.privateKey, LAMBDA key :
    With(Prehash(SignerGetHash(s), digest), LAMBDA input :
        CASE key.fam = "RSA" /\ key.part = "private" ->
                [sig |-> Signature("PSS", Public(key), input, RSASize(key)), err |-> NoError,
                 halves |-> <<>>]
          [] key.fam = "ECDSA" /\ key.part = "private" ->
                With(Words(rnd.sBits), LAMBDA sBits :
                With(Words(rnd.rBits), LAMBDA rBits :
                With(Words(key.dBits), LAMBDA dBits :
                    IF ~(approxEqual(sBits, rBits) /\ approxEqual(sBits, dBits)
                         /\ approxEqual(rBits, dBits))
                    THEN [sig |-> NilSignature, err |-> ErrSanity, halves |-> <<>>]
                    ELSE
                        With(i2osp(rnd.rBits, curveByteSize(key.bits)), LAMBDA rOctets :
                        With(i2osp(rnd.sBits, curveByteSize(key.bits)), LAMBDA sOctets :
                            [sig |-> Signature("ECDSA", Public(key), input,
                                               OctetLen(rOctets) + OctetLen(sOctets)),
                             err |-> NoError,
                             halves |-> <<rOctets, sOctets>>])))))
          [] key.fam = "ED25519" /\ key.part = "private" ->
                [sig |-> Signature("Ed25519", Public(key), input, 64), err |-> NoError,
                 halves |-> <<>>]
          [] OTHER -> [sig |-> NilSignature, err |-> ErrUnsupportedKeyType, halves |-> <<>>]))

\* the key primitive's verdict (rsa.VerifyPSS, ecdsa.Verify, ed25519.Verify)
PrimitiveAccepts(scheme, key, input, sig) ==
    /\ sig.intact
    /\ sig.scheme = scheme
    /\ sig.pub = key
    /\ sig.input = input

\* a Verify that hands an elliptic-curve signature of any length to ecdsa.Verify
VerifyOutcomeAnyLength(v, digest, sig) ==
    With(v.publicKey, LAMBDA key :
    With(Prehash(VerifierGetHash(v), digest), LAMBDA input :
        CASE key.fam = "RSA" /\ key.part = "public" ->
                [err |-> IF PrimitiveAccepts("PSS", key, input, sig) THEN NoError
                         ELSE ErrVerification,
                 checked |-> TRUE]
          [] key.fam = "ECDSA" /\ key.part = "public" ->
                [err |-> IF ~PrimitiveAccepts("ECDSA", key, input, sig) THEN ErrVerification
                         ELSE NoError,
                 checked |-> TRUE]
          [] key.fam = "ED25519" /\ key.part = "public" ->
                [err |-> IF ~PrimitiveAccepts("Ed25519", key, input, sig) THEN ErrVerification
                         ELSE NoError,
                 checked |-> TRUE]
          [] OTHER -> [err |-> ErrUnsupportedKeyType, checked |-> FALSE]))

\* Verifier.Verify(digest, sig): the error returned, and whether the key
\* primitive (rsa.VerifyPSS, ecdsa.Verify, ed25519.Verify) was run
VerifyOutcome(v, digest, sig) ==
    With(v.publicKey, LAMBDA key :
    With(Prehash(VerifierGetHash(v), digest), LAMBDA input :
        CASE key.fam = "RSA" /\ key.part = "public" ->
                [err |-> IF PrimitiveAccepts("PSS", key, input, sig) THEN NoError
                         ELSE ErrVerification,
                 checked |-> TRUE]
          [] key.fam = "ECDSA" /\ key.part = "public" ->
                IF sig.len # curveByteSize(v.alg.CurveBits) * 2
                THEN [err |-> ErrVerification, checked |-> FALSE]
                ELSE [err |-> IF ~PrimitiveAccepts("ECDSA", key, input, sig)
                              THEN ErrVerification ELSE NoError,
                      checked |-> TRUE]
          [] key.fam = "ED25519" /\ key.part = "public" ->
                [err |-> IF ~PrimitiveAccepts("Ed25519", key, input, sig) THEN ErrVerification
                         ELSE NoError,
                 checked |-> TRUE]
          [] OTHER -> [err |-> ErrUnsupportedKeyType, checked |-> FALSE]))

\* Verifier.Verify(digest, sig): the error returned
Verify(v, digest, sig) == VerifyOutcome(v, digest, sig).err

(***************************************************************************)
(* Messages                                                                *)
(***************************************************************************)
MessageTagSign1 == 18

MessageTagSign == 98

NoMessage ==
    [kind |-> "nil", Headers |-> NewHeaders, signer |-> NilSigner, signers |-> <<>>,
     content |-> ""]

NewSign1Message == [NoMessage EXCEPT !.kind = "Sign1"]

NewSignMessage == [NoMessage EXCEPT !.kind = "Sign"]

GetMessageTag(m) == IF m.kind = "Sign1" THEN MessageTagSign1 ELSE MessageTagSign

\* the encoded structure: tag, body, and for tag 98 the signature entries
Data(tag, protected, unprotected, payload, signature, signatures) ==
    [tag |-> tag, Protected |-> protected, Unprotected |-> unprotected,
     Payload |-> payload, Signature |-> signature, Signatures |-> signatures]

NoData == Data(0, AbsentBytes, EmptyMap, "", NilSignature, <<>>)

\* sign1Message.GetDigest
Sign1GetDigest(protected, payload, external) ==
    ToBeSigned("Signature1", protected, AbsentBytes, external, payload)

\* signMessage.GetDigest
SignGetDigest(protected, payload, signerProtected, external) ==
    ToBeSigned("Signature", protected, signerProtected, external, payload)

EncodeResult(data, err, panicked) == [data |-> data, err |-> err, panicked |-> panicked]

\* Sign1Message.sign followed by the Marshal of the tagged structure.  A nil
\* signer is dereferenced by GetHeaders: the call panics
Sign1MessageSign(m, external, rnd) ==
    IF m.signer = NilSigner THEN EncodeResult(NoData, NoError, TRUE)
    ELSE
        With(GetHeaders(m.signer), LAMBDA sheaders :
        With(MergeHeaders(m.Headers, sheaders.h), LAMBDA h :
        With(MarshalProtected(h.protected), LAMBDA ph :
        With(Sign(m.signer, rnd[1], Sign1GetDigest(ph, m.content, external)), LAMBDA sg :
            IF sheaders.err # NoError THEN EncodeResult(NoData, sheaders.err, FALSE)
            ELSE IF sg.err # NoError THEN EncodeResult(NoData, sg.err, FALSE)
            ELSE EncodeResult(Data(MessageTagSign1, ph, MarshalMap(h.unprotected),
                                   m.content, sg.sig, <<>>),
                              NoError, FALSE)))))

\* one pass of the loop of SignMessage.sign: the signature entry of signer i
SignatureEntry(m, ph, external, rnd, i) ==
    With(GetHeaders(m.signers[i]), LAMBDA sheaders :
    With(MarshalProtected(sheaders.h.protected), LAMBDA sph :
    With(Sign(m.signers[i], rnd[i], SignGetDigest(ph, m.content, sph, external)), LAMBDA sg :
        [entry |-> [Protected |-> sph, Unprotected |-> MarshalMap(sheaders.h.unprotected),
                    Signature |-> sg.sig],
         err |-> IF sheaders.err # NoError THEN sheaders.err ELSE sg.err])))

\* SignMessage.sign followed by the Marshal of the tagged structure
SignMessageSign(m, external, rnd) ==
    With(MarshalProtected(m.Headers.protected), LAMBDA ph :
    With([i \in 1..Len(m.signers) |-> SignatureEntry(m, ph, external, rnd, i)], LAMBDA entries :
    With({i \in 1..Len(m.signers) : entries[i].err # NoError}, LAMBDA failed :
        IF failed # {}
        THEN EncodeResult(NoData, entries[CHOOSE i \in failed : \A j \in failed : i <= j].err, FALSE)
        ELSE EncodeResult(Data(MessageTagSign, ph, MarshalMap(m.Headers.unprotected),
                               m.content, NilSignature,
                               [i \in 1..Len(m.signers) |-> entries[i].entry]),
                          NoError, FALSE))))

\* Encoding.EncodeWithExternal
EncodeWithExternal(m, external, rnd) ==
    IF m.kind = "Sign1" THEN Sign1MessageSign(m, external, rnd)
    ELSE SignMessageSign(m, external, rnd)

(***************************************************************************)
(* Decoding                                                                *)
(***************************************************************************)
\* decMode.Unmarshal of a CBOR map into map[interface{}]interface{}
UnmarshalMap(wm) ==
    [k \in {UnmarshalValue(wk) : wk \in DOMAIN wm} |->
        UnmarshalValue(wm[CHOOSE wk \in DOMAIN wm : UnmarshalValue(wk) = k])]

RECURSIVE SetEach(_, _)
\* "for k, v := range unprotected { h.Set(k, v) }": Go ranges over a map in an
\* unspecified order, so this is the set of outcomes over every order
SetEach(h, m) ==
    IF DOMAIN m = {} THEN {[h |-> h, err |-> NoError]}
    ELSE UNION {With(Set(h, k, m[k]), LAMBDA r :
                    IF r.err # NoError THEN {[h |-> NewHeaders, err |-> r.err]}
                    ELSE SetEach(r.h, MapDelete(m, k)))
                : k \in DOMAIN m}

RECURSIVE SetProtectedEach(_, _)
\* "for k, v := range prot { h.SetProtected(k, v) }", over every order
SetProtectedEach(h, m) ==
    IF DOMAIN m = {} THEN {[h |-> h, err |-> NoError]}
    ELSE UNION {With(SetProtected(h, k, m[k]), LAMBDA r :
                    IF r.err # NoError THEN {[h |-> NewHeaders, err |-> r.err]}
                    ELSE SetProtectedEach(r.h, MapDelete(m, k)))
                : k \in DOMAIN m}

\* newHeaders(e, protected, unprotected): the outcomes [h, err]
newHeaders(protected, unprotected) ==
    UNION {IF u.err # NoError THEN {u}
           ELSE IF protected.form # "map" THEN {[h |-> NewHeaders, err |-> ErrCodec]}
           ELSE SetProtectedEach(u.h, UnmarshalMap(protected.m))
           : u \in SetEach(NewHeaders, UnmarshalMap(unprotected))}

\* a nil *Config
NilConfig == [isNil |-> TRUE, results |-> <<>>, verified |-> FALSE]

\* a Config: what its GetVerifiers returns on its i-th call, results[i] = [vs, err],
\* and whether its Verified callback is set
Config(results, verified) == [isNil |-> FALSE, results |-> results, verified |-> verified]

\* an entry of the record of the calls Decode makes on the caller's Config and Verifiers
Call(name, i, v, headers, err) ==
    [call |-> name, sig |-> i, v |-> v, headers |-> headers, err |-> err]

\* a loop that tries the first verifier of the list only
LastTriedFirstOnly(vs, digest, signature) == 1

\* a loop without the break: it goes on to the end of the list
LastTriedNoBreak(vs, digest, signature) == Len(vs)

\* the index in vs at which the loop of verifySignature ends: the first verifier
\* that accepts, the last one when none does
LastTried(vs, digest, signature) ==
    With({k \in 1..Len(vs) : Verify(vs[k], digest, signature) = NoError}, LAMBDA ok :
        IF ok = {} THEN Len(vs) ELSE CHOOSE k \in ok : \A j \in ok : k <= j)

\* a verifySignature that returns what the resolver returned and tries no verifier
verifySignatureUnchecked(config, headers, digest, signature, i) ==
    [err |-> IF config.isNil THEN ErrVerification ELSE config.results[i].err,
     log |-> IF config.isNil THEN <<>>
             ELSE <<Call("GetVerifiers", i, NilVerifier, headers, config.results[i].err)>>]

\* a verifySignature that goes on to the verifiers after a resolver error and
\* reports that error as a failed verification
verifySignatureNormalised(config, headers, digest, signature, i) ==
    With(IF ~config.isNil THEN config.results[i] ELSE [vs |-> <<>>, err |-> NoError], LAMBDA got :
    With(IF ~config.isNil THEN <<Call("GetVerifiers", i, NilVerifier, headers, got.err)>>
         ELSE <<>>, LAMBDA asked :
        IF Len(got.vs) = 0 THEN [err |-> ErrVerification, log |-> asked]
        ELSE
            With(LastTried(got.vs, digest, signature), LAMBDA n :
            With([k \in 1..n |-> Verify(got.vs[k], digest, signature)], LAMBDA verrs :
                [err |-> verrs[n],
                 log |-> asked
                         \o [k \in 1..n |-> Call("Verify", i, got.vs[k], NewHeaders, verrs[k])]
                         \o (IF verrs[n] = NoError /\ ~config.isNil /\ config.verified
                             THEN <<Call("Verified", i, got.vs[n], NewHeaders, NoError)>>
                             ELSE <<>>)]))))

\* verifySignature for the i-th signature: the error and the calls made
verifySignature(config, headers, digest, signature, i) ==
    With(IF ~config.isNil THEN config.results[i] ELSE [vs |-> <<>>, err |-> NoError], LAMBDA got :
    With(IF ~config.isNil THEN <<Call("GetVerifiers", i, NilVerifier, headers, got.err)>>
         ELSE <<>>, LAMBDA asked :
        IF got.err # NoError THEN [err |-> got.err, log |-> asked]
        ELSE IF Len(got.vs) = 0 THEN [err |-> ErrVerification, log |-> asked]
        ELSE
            With(LastTried(got.vs, digest, signature), LAMBDA n :
            With([k \in 1..n |-> Verify(got.vs[k], digest, signature)], LAMBDA verrs :
                [err |-> verrs[n],
                 log |-> asked
                         \o [k \in 1..n |-> Call("Verify", i, got.vs[k], NewHeaders, verrs[k])]
                         \o (IF verrs[n] = NoError /\ ~config.isNil /\ config.verified
                             THEN <<Call("Verified", i, got.vs[n], NewHeaders, NoError)>>
                             ELSE <<>>)]))))

RECURSIVE VerifySignaturesAll(_, _, _, _, _)
\* a loop that goes on to the later entries after a failure and returns the first error
VerifySignaturesAll(c, external, config, headers, i) ==
    IF i > Len(c.Signatures) THEN {[err |-> NoError, log |-> <<>>]}
    ELSE
        With(c.Signatures[i], LAMBDA sig :
        With(SignGetDigest(c.Protected, c.Payload, sig.Protected, external), LAMBDA digest :
            UNION {With(IF sh.err # NoError THEN [err |-> sh.err, log |-> <<>>]
                        ELSE verifySignature(config, MergeHeaders(headers, sh.h),
                                             digest, sig.Signature, i), LAMBDA r :
                       {[err |-> IF r.err # NoError THEN r.err ELSE rest.err,
                         log |-> r.log \o rest.log] :
                            rest \in VerifySignaturesAll(c, external, config, headers, i + 1)})
                   : sh \in newHeaders(sig.Protected, sig.Unprotected)}))

RECURSIVE VerifySignatures(_, _, _, _, _)
\* the loop "for _, sig := range c.Signatures" from entry i on: the outcomes [err, log]
VerifySignatures(c, external, config, headers, i) ==
    IF i > Len(c.Signatures) THEN {[err |-> NoError, log |-> <<>>]}
    ELSE
        With(c.Signatures[i], LAMBDA sig :
        With(SignGetDigest(c.Protected, c.Payload, sig.Protected, external), LAMBDA digest :
            UNION {IF sh.err # NoError THEN {[err |-> sh.err, log |-> <<>>]}
                   ELSE With(verifySignature(config, MergeHeaders(headers, sh.h),
                                             digest, sig.Signature, i), LAMBDA r :
                            IF r.err # NoError THEN {r}
                            ELSE {[err |-> rest.err, log |-> r.log \o rest.log] :
                                    rest \in VerifySignatures(c, external, config, headers, i + 1)})
                   : sh \in newHeaders(sig.Protected, sig.Unprotected)}))

\* what Decode returns, (Message, error), with the calls it made
DecodeResult(kind, h, content, err, log) ==
    [kind |-> kind, Headers |-> h, content |-> content, err |-> err, log |-> log]

\* a DecodeWithExternal whose switch has no default: data with any tag but 18
\* is read as a multi-signer message
DecodeWithExternalUntagged(c, external, config) ==
    IF c.tag = MessageTagSign1 THEN
        UNION {IF mh.err # NoError THEN {DecodeResult("nil", NewHeaders, "", mh.err, <<>>)}
               ELSE With(verifySignature(config, mh.h,
                                         Sign1GetDigest(c.Protected, c.Payload, external),
                                         c.Signature, 1), LAMBDA r :
                        {DecodeResult("Sign1", mh.h, c.Payload, r.err, r.log)})
               : mh \in newHeaders(c.Protected, c.Unprotected)}
    ELSE
        UNION {IF mh.err # NoError THEN {DecodeResult("nil", NewHeaders, "", mh.err, <<>>)}
               ELSE {DecodeResult("Sign", mh.h, c.Payload, r.err, r.log) :
                        r \in VerifySignatures(c, external, config, mh.h, 1)}
               : mh \in newHeaders(c.Protected, c.Unprotected)}

\* Encoding.DecodeWithExternal: the outcomes
DecodeWithExternal(c, external, config) ==
    IF c.tag = MessageTagSign1 THEN
        UNION {IF mh.err # NoError THEN {DecodeResult("nil", NewHeaders, "", mh.err, <<>>)}
               ELSE With(verifySignature(config, mh.h,
                                         Sign1GetDigest(c.Protected, c.Payload, external),
                                         c.Signature, 1), LAMBDA r :
                        {DecodeResult("Sign1", mh.h, c.Payload, r.err, r.log)})
               : mh \in newHeaders(c.Protected, c.Unprotected)}
    ELSE IF c.tag = MessageTagSign THEN
        UNION {IF mh.err # NoError THEN {DecodeResult("nil", NewHeaders, "", mh.err, <<>>)}
               ELSE {DecodeResult("Sign", mh.h, c.Payload, r.err, r.log) :
                        r \in VerifySignatures(c, external, config, mh.h, 1)}
               : mh \in newHeaders(c.Protected, c.Unprotected)}
    ELSE {DecodeResult("nil", NewHeaders, "", ErrUnsupportedMessageTag(c.tag), <<>>)}

(***************************************************************************)
(* Bounds and input sets                                                   *)
(***************************************************************************)
\* the longest signer list of a multi-signer message
MaxSigners == 2

\* the number of goroutines calling Encode or Decode on the shared Encoding
MaxCallers == 2

Callers == 1..MaxCallers

\* the number of header operations applied to the two Headers instances
MaxHdrOps == 2

\* RSA moduli on both sides of MinKeySize, exact and rounded up to bytes
RSABitLengths == {1024, 2040, 2041, 2047, 2048, 3072}

\* curve sizes: P-224, P-256, P-384, P-521
CurveBitSizes == {224, 256, 384, 521}

CtorAlgNames == {algorithms[i].Name : i \in 1..Len(algorithms)} \cup {"", "HS256", "es256"}

CtorKeys ==
    {NilKey}
    \cup {Key("RSA", p, b, 1) : p \in {"private", "public"}, b \in RSABitLengths}
    \cup {Key("ECDSA", p, b, 1) : p \in {"private", "public"}, b \in CurveBitSizes}
    \cup {Key("ED25519", p, 0, 1) : p \in {"private", "public"}}
    \cup {Key("other", p, 0, 1) : p \in {"private", "public"}}

\* the private keys of the producers
SignerKeys ==
    {Key("RSA", "private", 2048, 1), Key("RSA", "private", 2048, 2),
     Key("ECDSA", "private", 256, 1), Key("ECDSA", "private", 384, 1),
     Key("ECDSA", "private", 521, 1), Key("ED25519", "private", 0, 1)}

\* every Signer NewSigner builds from an Algorithm constant and a producer's key
Signers ==
    {NewSigner(a, k).s : a \in SigningAlgorithms, k \in SignerKeys} \ {NilSigner}

\* the signers added to multi-signer messages
MultiSigners ==
    {NewSigner("PS256", Key("RSA", "private", 2048, 1)).s,
     NewSigner("EdDSA", Key("ED25519", "private", 0, 1)).s}

\* a verifier of a key pair that signed nothing
Stranger == NewVerifier("PS256", Key("RSA", "public", 2048, 3)).v

Contents == {"test"}

Externals == {"", "aad"}

\* what the random source can lead to in one Sign call: for ECDSA, r and s of
\* the curve's full length, one byte shorter, r one word shorter, or an r a
\* quarter as long
RandOutcomes(s) ==
    IF s.privateKey.fam = "ECDSA"
    THEN {[rBits |-> r, sBits |-> b] :
            r \in {s.privateKey.bits, s.privateKey.bits - 8, s.privateKey.bits - 64,
                   s.privateKey.bits \div 4},
            b \in {s.privateKey.bits, s.privateKey.bits - 8}}
    ELSE {[rBits |-> 0, sBits |-> 0]}

\* one outcome per Sign call of an Encode
RandSeqs(signers) ==
    {r \in [1..Len(signers) -> UNION {RandOutcomes(signers[i]) : i \in 1..Len(signers)}] :
        \A i \in 1..Len(signers) : r[i] \in RandOutcomes(signers[i])}

\* the signers of a message in the order of its signatures
SignersOf(m) == IF m.kind = "Sign1" THEN <<m.signer>> ELSE m.signers

\* what a caller's GetVerifiers may return for the signature of signer s
ResolverOutcomes(s, i) ==
    {[vs |-> vs, err |-> NoError] :
        vs \in UNION {{<<>>, <<own>>, <<other>>, <<other, own>>, <<own, other>>,
                       <<own, own>>} :
                        own \in {ToVerifier(s).v}, other \in {Stranger}}}
    \cup {[vs |-> <<>>, err |-> ErrResolver(i)]}

\* the outcomes tried for signature i of the data: every one for data with a
\* single signature, those with at most one verifier otherwise
OutcomesFor(signers, i) ==
    IF Len(signers) = 1 THEN ResolverOutcomes(signers[i], i)
    ELSE {r \in ResolverOutcomes(signers[i], i) : Len(r.vs) <= 1}

\* the Configs a consumer may pass to Decode for the data in flight
Configs(signers) ==
    {NilConfig} \cup
    UNION {{Config(r, cb) :
                r \in {r \in [1..Len(signers) -> UNION {outcomes[i] : i \in 1..Len(signers)}] :
                        \A i \in 1..Len(signers) : r[i] \in outcomes[i]},
                cb \in BOOLEAN}
           : outcomes \in {[i \in 1..Len(signers) |-> OutcomesFor(signers, i)]}}

(***************************************************************************)
(* State machine                                                           *)
(***************************************************************************)
NoEncode == [called |-> FALSE, external |-> "", res |-> EncodeResult(NoData, NoError, FALSE)]

NoDecode ==
    [called |-> FALSE, external |-> "", config |-> NilConfig,
     res |-> DecodeResult("nil", NewHeaders, "", NoError, <<>>)]

NoCall == [op |-> "none", alg |-> "", key |-> NilKey, err |-> NoError, isNil |-> TRUE]

NoPrimitive ==
    [op |-> "none", s |-> NilSigner, v |-> NilVerifier, digest |-> NilDigest,
     rnd |-> [rBits |-> 0, sBits |-> 0], sig |-> NilSignature, err |-> NoError,
     checked |-> FALSE, halves |-> <<>>]

\* a caller with no call running
NoInflight == [pc |-> "idle"]

NoHeaderOp == [op |-> "none", target |-> "", key |-> GoNil, value |-> GoNil, err |-> NoError]

Init ==
    /\ msg = NoMessage
    /\ wire = NoData
    /\ enc = NoEncode
    /\ dec = NoDecode
    /\ hA = NewHeaders
    /\ hB = NewHeaders
    /\ hM = NewHeaders
    /\ hOps = 0
    /\ hLast = NoHeaderOp
    /\ ctor = NoCall
    /\ prim = NoPrimitive
    /\ inflight = [p \in Callers |-> NoInflight]

headerVars == <<hA, hB, hM, hOps, hLast>>

pipelineVars == <<msg, wire, enc, dec>>

\* ---- constructors ----
CallNewSigner ==
    /\ ctor = NoCall
    /\ \E alg \in CtorAlgNames, key \in CtorKeys :
        \E r \in {NewSigner(alg, key)} :
            ctor' = [op |-> "NewSigner", alg |-> alg, key |-> key, err |-> r.err,
                     isNil |-> r.s = NilSigner]
    /\ UNCHANGED <<pipelineVars, headerVars, prim, inflight>>

CallNewVerifier ==
    /\ ctor = NoCall
    /\ \E alg \in CtorAlgNames, key \in CtorKeys :
        \E r \in {NewVerifier(alg, key)} :
            ctor' = [op |-> "NewVerifier", alg |-> alg, key |-> key, err |-> r.err,
                     isNil |-> r.v = NilVerifier]
    /\ UNCHANGED <<pipelineVars, headerVars, prim, inflight>>

NextCtor == CallNewSigner \/ CallNewVerifier

SpecCtor == Init /\ [][NextCtor]_vars

\* ---- Signer.Sign and Verifier.Verify ----
\* the private keys handed to NewSigner: those of the constructor calls, those
\* of the producers, and a second P-256 key pair
PrimKeys ==
    {k \in CtorKeys : k.part = "private"} \cup SignerKeys
    \cup {Key("ECDSA", "private", 256, 2)}

\* every Signer NewSigner accepts for an Algorithm constant and one of the keys
PrimSigners == {NewSigner(a, k).s : a \in SigningAlgorithms, k \in PrimKeys} \ {NilSigner}

\* the Verifiers of those signers
PrimVerifiers == {ToVerifier(s).v : s \in PrimSigners} \ {NilVerifier}

\* the byte strings signed: the to-be-signed bytes of a single-signer message
PrimDigests ==
    {Sign1GetDigest(MarshalProtected(EmptyMap), c, x) : c \in Contents, x \in Externals}

\* the signatures handed to Verify: every signature a signer produces over the
\* first of the byte strings or over any of them with full-length r and s, the
\* same with a byte changed, with the last byte cut off, with a byte appended,
\* and the empty signature
PrimSignatures ==
    UNION {{sg, [sg EXCEPT !.intact = FALSE],
            [sg EXCEPT !.intact = FALSE, !.len = @ - 1],
            [sg EXCEPT !.intact = FALSE, !.len = @ + 1]} :
           sg \in {Sign(s, [rBits |-> s.privateKey.bits, sBits |-> s.privateKey.bits], d).sig :
                    s \in PrimSigners, d \in PrimDigests}}
    \cup {NilSignature}

CallSign ==
    /\ prim = NoPrimitive
    /\ \E s \in PrimSigners, d \in PrimDigests :
        \E rnd \in RandOutcomes(s) :
            \E r \in {Sign(s, rnd, d)} :
                prim' = [op |-> "Sign", s |-> s, v |-> NilVerifier, digest |-> d, rnd |-> rnd,
                         sig |-> r.sig, err |-> r.err, checked |-> FALSE,
                         halves |-> r.halves]
    /\ UNCHANGED <<pipelineVars, headerVars, ctor, inflight>>

CallVerify ==
    /\ prim = NoPrimitive
    /\ \E v \in PrimVerifiers, d \in PrimDigests, sg \in PrimSignatures :
        \E r \in {VerifyOutcome(v, d, sg)} :
            prim' = [op |-> "Verify", s |-> NilSigner, v |-> v, digest |-> d,
                     rnd |-> [rBits |-> 0, sBits |-> 0], sig |-> sg, err |-> r.err,
                     checked |-> r.checked, halves |-> <<>>]
    /\ UNCHANGED <<pipelineVars, headerVars, ctor, inflight>>

NextPrim == CallSign \/ CallVerify

SpecPrim == Init /\ [][NextPrim]_vars

\* ---- messages ----
CreateSign1Message ==
    /\ msg = NoMessage
    /\ msg' = NewSign1Message
    /\ UNCHANGED <<wire, enc, dec, headerVars, ctor, prim, inflight>>

CreateSignMessage ==
    /\ msg = NoMessage
    /\ msg' = NewSignMessage
    /\ UNCHANGED <<wire, enc, dec, headerVars, ctor, prim, inflight>>

SetContent ==
    /\ msg # NoMessage /\ ~enc.called
    /\ \E content \in Contents : msg' = [msg EXCEPT !.content = content]
    /\ UNCHANGED <<wire, enc, dec, headerVars, ctor, prim, inflight>>

SetSigner ==
    /\ msg.kind = "Sign1" /\ ~enc.called
    /\ \E s \in Signers \cup {NilSigner} : msg' = [msg EXCEPT !.signer = s]
    /\ UNCHANGED <<wire, enc, dec, headerVars, ctor, prim, inflight>>

AddSigner ==
    /\ msg.kind = "Sign" /\ ~enc.called
    /\ Len(msg.signers) < MaxSigners
    /\ \E s \in MultiSigners \cup {NilSigner} :
        msg' = IF s = NilSigner THEN msg ELSE [msg EXCEPT !.signers = Append(@, s)]
    /\ UNCHANGED <<wire, enc, dec, headerVars, ctor, prim, inflight>>

Encode ==
    /\ msg # NoMessage /\ ~enc.called
    /\ \E external \in Externals, rnd \in RandSeqs(SignersOf(msg)) :
        \E r \in {EncodeWithExternal(msg, external, rnd)} :
            /\ enc' = [called |-> TRUE, external |-> external, res |-> r]
            /\ wire' = r.data
    /\ UNCHANGED <<msg, dec, headerVars, ctor, prim, inflight>>

\* ---- headers of the message and of its signer ----
\* the setter calls a producer makes on Message.Headers or Signer.Headers: the
\* algorithm label in its three forms and the key id, with algorithm names,
\* an algorithm value and a plain number
ProducerHeaderCalls ==
    {[protected |-> p, key |-> k, value |-> v] :
        p \in BOOLEAN,
        k \in {GoString("alg"), GoInt(1), GoInt64(1), GoString("kid")},
        v \in {GoString("ES256"), GoString("PS512"), GoInt64(-8), GoInt64(5)}}

\* h after the setter call c
ProducerHeaders(h, c) ==
    IF c.protected THEN SetProtected(h, c.key, c.value).h ELSE Set(h, c.key, c.value).h

\* msg.Headers.Set(...) / msg.Headers.SetProtected(...)
SetMessageHeader ==
    /\ msg.kind = "Sign1" /\ ~enc.called
    /\ msg.Headers = NewHeaders
    /\ \E c \in ProducerHeaderCalls :
        msg' = [msg EXCEPT !.Headers = ProducerHeaders(NewHeaders, c)]
    /\ UNCHANGED <<wire, enc, dec, headerVars, ctor, prim, inflight>>

\* msg.Signer.Headers.Set(...) / msg.Signer.Headers.SetProtected(...)
SetSignerHeader ==
    /\ msg.kind = "Sign1" /\ ~enc.called
    /\ msg.signer # NilSigner /\ msg.signer.Headers = NewHeaders
    /\ \E c \in ProducerHeaderCalls :
        msg' = [msg EXCEPT !.signer.Headers = ProducerHeaders(NewHeaders, c)]
    /\ UNCHANGED <<wire, enc, dec, headerVars, ctor, prim, inflight>>

NextProducer ==
    \/ CreateSign1Message
    \/ SetSigner
    \/ SetMessageHeader
    \/ SetSignerHeader
    \/ Encode

SpecProducer == Init /\ [][NextProducer]_vars

\* ---- multi-signer producer ----
\* the setter calls made on the headers of a multi-signer message and of its
\* signers: the key id protected and unprotected, and an algorithm by name
MultiHeaderCalls ==
    {[protected |-> TRUE, key |-> GoString("kid"), value |-> GoInt64(5)],
     [protected |-> FALSE, key |-> GoString("kid"), value |-> GoInt64(5)],
     [protected |-> TRUE, key |-> GoString("alg"), value |-> GoString("PS512")]}

\* the signers passed to AddSigner: as NewSigner returns them, or the EdDSA
\* signer after one SetProtected call on Signer.Headers
MultiHeaderSigners ==
    MultiSigners
    \cup {[s EXCEPT !.Headers = ProducerHeaders(NewHeaders, c)] :
            s \in {NewSigner("EdDSA", Key("ED25519", "private", 0, 1)).s},
            c \in {c \in MultiHeaderCalls : c.protected}}

\* the arguments of the AddSigner calls made on the message so far, in call
\* order, nil included (a history the code does not keep)
Added(m) == IF "calls" \in DOMAIN m THEN m.calls ELSE <<>>

\* a SignMessage.AddSigner that appends whatever it is given
AddSignerAny(m, signer) == [m EXCEPT !.signers = Append(@, signer)]

\* SignMessage.AddSigner: the message afterwards
SignMessageAddSigner(m, signer) ==
    IF signer = NilSigner THEN m ELSE [m EXCEPT !.signers = Append(@, signer)]

\* msg.Headers.Set(...) / msg.Headers.SetProtected(...) on a multi-signer message
MultiSetHeader ==
    /\ msg.kind = "Sign" /\ ~enc.called
    /\ msg.Headers = NewHeaders
    /\ \E c \in MultiHeaderCalls :
        msg' = [msg EXCEPT !.Headers = ProducerHeaders(NewHeaders, c)]
    /\ UNCHANGED <<wire, enc, dec, headerVars, ctor, prim, inflight>>

\* msg.AddSigner(signer), nil included
MultiAddSigner ==
    /\ msg.kind = "Sign" /\ ~enc.called
    /\ Len(Added(msg)) < MaxSigners + 1
    /\ \E signer \in MultiHeaderSigners \cup {NilSigner} :
        \E m \in {SignMessageAddSigner(msg, signer)} :
            msg' = [kind |-> m.kind, Headers |-> m.Headers, signer |-> m.signer,
                    signers |-> m.signers, content |-> m.content,
                    calls |-> Append(Added(msg), signer)]
    /\ UNCHANGED <<wire, enc, dec, headerVars, ctor, prim, inflight>>

NextMulti ==
    \/ CreateSignMessage
    \/ SetContent
    \/ MultiSetHeader
    \/ MultiAddSigner
    \/ Encode

SpecMulti == Init /\ [][NextMulti]_vars

\* ---- the bytes in flight ----
\* tags of well-formed tagged data that is no signed message of this package:
\* MessageTagEncrypt0, MessageTagMAC0, MessageTagEncrypt, MessageTagMAC
ForeignTags == {16, 17, 96, 97}

\* byte strings that differ from protected header bytes b: bytes that are no CBOR
\* map, a map with one more label, a map with a label that is no string or integer
ProtectedChanges(b) ==
    {MalformedBytes,
     MapBytes(MapPut(b.m, MarshalValue(GoString("x")), MarshalValue(GoInt64(1)))),
     MapBytes(MapPut(b.m, [t |-> "float", s |-> "", n |-> 1], MarshalValue(GoInt64(1))))}
    \ {b}

\* the data after a change to its payload, to its tag, to its protected header
\* bytes, or to the signature or the protected header bytes of one signature entry
Changes(c) ==
    {[c EXCEPT !.Payload = "tampered"]}
    \cup {[c EXCEPT !.tag = t] : t \in ForeignTags}
    \cup {[c EXCEPT !.Protected = b] : b \in ProtectedChanges(c.Protected)}
    \cup (IF c.tag = MessageTagSign1 THEN {[c EXCEPT !.Signature.intact = FALSE]} ELSE {})
    \cup {[c EXCEPT !.Signatures[i].Signature.intact = FALSE] : i \in 1..Len(c.Signatures)}
    \cup UNION {{[c EXCEPT !.Signatures[i].Protected = b] :
                    b \in ProtectedChanges(c.Signatures[i].Protected)} :
                i \in 1..Len(c.Signatures)}

Tamper ==
    /\ wire # NoData /\ wire = enc.res.data /\ ~dec.called
    /\ \E c \in Changes(wire) : wire' = c
    /\ UNCHANGED <<msg, enc, dec, headerVars, ctor, prim, inflight>>

Decode ==
    /\ wire # NoData /\ ~dec.called
    /\ \E external \in Externals, config \in Configs(SignersOf(msg)) :
        \E r \in DecodeWithExternal(wire, external, config) :
            dec' = [called |-> TRUE, external |-> external, config |-> config, res |-> r]
    /\ UNCHANGED <<msg, wire, enc, headerVars, ctor, prim, inflight>>

Next ==
    \/ CreateSign1Message
    \/ CreateSignMessage
    \/ SetContent
    \/ SetSigner
    \/ AddSigner
    \/ Encode
    \/ Tamper
    \/ Decode

Spec == Init /\ [][Next]_vars

\* ---- header store ----
HeaderLabels ==
    {GoString("alg"), GoString("crit"), GoString("kid"), GoString("x"),
     GoInt(1), GoInt(2), GoInt64(1), GoInt64(2), GoInt64(4), GoUint(1)}

HeaderValues == {GoString("ES256"), GoInt64(5)}

HeadersOf(target) == IF target = "a" THEN hA ELSE hB

\* the step of one setter call on hA or hB with outcome r
HeaderStep(op, target, key, value, r) ==
    /\ hA' = IF target = "a" THEN r.h ELSE hA
    /\ hB' = IF target = "b" THEN r.h ELSE hB
    /\ hOps' = hOps + 1
    /\ hLast' = [op |-> op, target |-> target, key |-> key, value |-> value, err |-> r.err]
    /\ UNCHANGED <<hM, pipelineVars, ctor, prim, inflight>>

HeadersSet ==
    /\ hOps < MaxHdrOps
    /\ \E target \in {"a", "b"}, key \in HeaderLabels, value \in HeaderValues :
        HeaderStep("Set", target, key, value, Set(HeadersOf(target), key, value))

HeadersSetProtected ==
    /\ hOps < MaxHdrOps
    /\ \E target \in {"a", "b"}, key \in HeaderLabels, value \in HeaderValues :
        HeaderStep("SetProtected", target, key, value,
                   SetProtected(HeadersOf(target), key, value))

HeadersDelete ==
    /\ hOps < MaxHdrOps
    /\ \E target \in {"a", "b"}, key \in HeaderLabels :
        HeaderStep("Delete", target, key, GoNil,
                   [h |-> Delete(HeadersOf(target), key), err |-> NoError])

HeadersMerge ==
    /\ hLast.op # "MergeHeaders"
    /\ hM' = MergeHeaders(hA, hB)
    /\ hLast' = [NoHeaderOp EXCEPT !.op = "MergeHeaders"]
    /\ UNCHANGED <<hA, hB, hOps, pipelineVars, ctor, prim, inflight>>

NextHeaders == HeadersSet \/ HeadersSetProtected \/ HeadersDelete \/ HeadersMerge

SpecHeaders == Init /\ [][NextHeaders]_vars

\* ---- Set followed by Get ----
\* the names of the common headers, by code
CommonHeaderNames ==
    <<"alg", "crit", "content type", "kid", "IV", "Partial IV", "counter signature">>

\* every common header as its name, its int code and its int64 code, and
\* labels that are no common header: a string, an int, an int64, a uint
GetSetLabels ==
    UNION {{GoString(CommonHeaderNames[c]), GoInt(c), GoInt64(c)} :
            c \in 1..Len(CommonHeaderNames)}
    \cup {GoString("reserved"), GoInt(123), GoInt64(123), GoUint(1)}

GetSetValues == HeaderValues \cup {GoInt64(-7)}

\* a setter call on a new Headers instance before the Set that is looked at
GetSetPrior ==
    /\ hOps = 0 /\ hLast = NoHeaderOp
    /\ \E protected \in BOOLEAN, key \in {GoString("alg"), GoString("kid"), GoInt(123)},
          value \in HeaderValues :
        \E r \in {IF protected THEN SetProtected(hA, key, value) ELSE Set(hA, key, value)} :
            /\ hA' = r.h
            /\ hOps' = 1
            /\ hLast' = [op |-> "Prior", target |-> "a", key |-> key, value |-> value,
                         err |-> r.err]
    /\ UNCHANGED <<hB, hM, pipelineVars, ctor, prim, inflight>>

\* h.Set(key, value)
GetSetSet ==
    /\ hOps <= 1 /\ hLast.op \in {"none", "Prior"}
    /\ \E key \in GetSetLabels, value \in GetSetValues :
        \E r \in {Set(hA, key, value)} :
            /\ hA' = r.h
            /\ hOps' = 2
            /\ hLast' = [op |-> "Set", target |-> "a", key |-> key, value |-> value,
                         err |-> r.err]
    /\ UNCHANGED <<hB, hM, pipelineVars, ctor, prim, inflight>>

\* h.Get(asked) after the Set: asked, and the value and the error returned
GetSetGet ==
    /\ hOps = 2 /\ hLast.op = "Set"
    /\ \E asked \in GetSetLabels :
        \E r \in {Get(hA, asked)} :
            hLast' = [op |-> "Get", target |-> "a", key |-> hLast.key, value |-> hLast.value,
                      err |-> hLast.err, asked |-> asked, got |-> r.v, gotErr |-> r.err]
    /\ UNCHANGED <<hA, hB, hM, hOps, pipelineVars, ctor, prim, inflight>>

NextGetSet == GetSetPrior \/ GetSetSet \/ GetSetGet

SpecGetSet == Init /\ [][NextGetSet]_vars

\* ---- setters, Delete and getters on one instance ----
\* h.Set(key, value) or h.SetProtected(key, value); the record keeps the
\* instance as it was before the call
StoreSet ==
    /\ hOps < MaxHdrOps
    /\ \E protected \in BOOLEAN, key \in HeaderLabels, value \in HeaderValues :
        \E r \in {IF protected THEN SetProtected(hA, key, value) ELSE Set(hA, key, value)} :
            /\ hA' = r.h
            /\ hOps' = hOps + 1
            /\ hLast' = [op |-> IF protected THEN "SetProtected" ELSE "Set", target |-> "a",
                         key |-> key, value |-> value, err |-> r.err, before |-> hA]
    /\ UNCHANGED <<hB, hM, pipelineVars, ctor, prim, inflight>>

\* h.Delete(key); the record keeps the instance as it was before the call
StoreDelete ==
    /\ hOps >= 1
    /\ \E key \in HeaderLabels :
        /\ hA' = Delete(hA, key)
        /\ hLast' = [op |-> "Delete", target |-> "a", key |-> key, value |-> GoNil,
                     err |-> NoError, before |-> hA]
    /\ UNCHANGED <<hB, hM, hOps, pipelineVars, ctor, prim, inflight>>

\* h.GetProtected(asked) or h.Get(asked) after a setter or Delete call, whose
\* record is kept: the getter, asked, and the value and the error returned
StoreGet ==
    /\ hLast.op \in {"Set", "SetProtected", "Delete"}
    /\ \E protected \in BOOLEAN, asked \in HeaderLabels :
        \E r \in {IF protected THEN GetProtected(hA, asked) ELSE Get(hA, asked)} :
            hLast' = [op |-> IF protected THEN "GetProtected" ELSE "Get", target |-> "a",
                      key |-> hLast.key, value |-> hLast.value, err |-> hLast.err,
                      after |-> hLast.op, asked |-> asked, got |-> r.v, gotErr |-> r.err]
    /\ UNCHANGED <<hA, hB, hM, hOps, pipelineVars, ctor, prim, inflight>>

NextStore == StoreSet \/ StoreDelete \/ StoreGet

SpecStore == Init /\ [][NextStore]_vars

\* ---- the algorithm header ----
\* the algorithm label as its name, its int code and its int64 code
AlgLabels == {GoString("alg"), GoInt(1), GoInt64(1)}

\* every name of the registry, every number of the registry as int64 and as
\* int, and a name and numbers the registry does not hold
AlgValues ==
    {GoString(algorithms[i].Name) : i \in 1..Len(algorithms)}
    \cup {GoInt64(algorithms[i].Value) : i \in 1..Len(algorithms)}
    \cup {GoInt(algorithms[i].Value) : i \in 1..Len(algorithms)}
    \cup {GoString("none"), GoInt64(0), GoInt(99), GoInt64(-9)}

\* h.SetProtected(key, value) of the algorithm label on a new instance
AlgSetProtected ==
    /\ hOps = 0 /\ hLast = NoHeaderOp
    /\ \E key \in AlgLabels, value \in AlgValues :
        \E r \in {SetProtected(hA, key, value)} :
            /\ hA' = r.h
            /\ hOps' = 1
            /\ hLast' = [op |-> "SetProtected", target |-> "a", key |-> key,
                         value |-> value, err |-> r.err]
    /\ UNCHANGED <<hB, hM, pipelineVars, ctor, prim, inflight>>

NextAlg == AlgSetProtected \/ StoreGet

SpecAlg == Init /\ [][NextAlg]_vars

\* ---- MergeHeaders and the instances it reads and returns ----
\* the labels of the instances that are merged
MergeLabels == {GoString("kid"), GoInt64(4), GoString("x"), GoInt(1)}

\* a setter call on instance a or b
MergeBuild ==
    /\ hOps < MaxHdrOps
    /\ \E target \in {"a", "b"}, protected \in BOOLEAN, key \in MergeLabels,
          value \in HeaderValues :
        \E r \in {IF protected THEN SetProtected(HeadersOf(target), key, value)
                  ELSE Set(HeadersOf(target), key, value)} :
            /\ hA' = IF target = "a" THEN r.h ELSE hA
            /\ hB' = IF target = "b" THEN r.h ELSE hB
            /\ hOps' = hOps + 1
            /\ hLast' = [op |-> "Build", target |-> target, key |-> key, value |-> value,
                         err |-> r.err]
    /\ UNCHANGED <<hM, pipelineVars, ctor, prim, inflight>>

\* a merge that writes into h1 and returns it
MergeHeadersInPlace(a, b) == [ref |-> "a", a |-> Merge(a, b), b |-> b, m |-> NewHeaders]

\* MergeHeaders(h1, h2) with h1 the instance a and h2 the instance b: the
\* instance returned (h, which NewHeaders allocates: neither a nor b) and the
\* three instances after the call (h.Merge writes h only)
MergeHeadersCall(a, b) == [ref |-> "m", a |-> a, b |-> b, m |-> MergeHeaders(a, b)]

\* m := MergeHeaders(a, b); the record keeps a and b as they were before
MergeCall ==
    /\ hLast.op \notin {"MergeHeaders", "Change"}
    /\ \E r \in {MergeHeadersCall(hA, hB)} :
        /\ hA' = r.a /\ hB' = r.b /\ hM' = r.m
        /\ hLast' = [op |-> "MergeHeaders", target |-> r.ref, key |-> GoNil, value |-> GoNil,
                     err |-> NoError, before |-> [a |-> hA, b |-> hB]]
    /\ UNCHANGED <<hOps, pipelineVars, ctor, prim, inflight>>

\* Set, SetProtected or Delete called on the instance MergeHeaders returned;
\* the record keeps a and b as they were before
ChangeResult ==
    /\ hLast.op = "MergeHeaders"
    /\ \E op \in {"Set", "SetProtected", "Delete"}, key \in MergeLabels :
        \E res \in {IF hLast.target = "a" THEN hA ELSE IF hLast.target = "b" THEN hB ELSE hM} :
        \E h \in {CASE op = "Set" -> Set(res, key, GoString("changed")).h
                    [] op = "SetProtected" -> SetProtected(res, key, GoString("changed")).h
                    [] op = "Delete" -> Delete(res, key)} :
            /\ hA' = IF hLast.target = "a" THEN h ELSE hA
            /\ hB' = IF hLast.target = "b" THEN h ELSE hB
            /\ hM' = IF hLast.target = "m" THEN h ELSE hM
            /\ hLast' = [op |-> "Change", target |-> hLast.target, key |-> key,
                         value |-> GoString(op), err |-> NoError,
                         before |-> [a |-> hA, b |-> hB, m |-> hM]]
    /\ UNCHANGED <<hOps, pipelineVars, ctor, prim, inflight>>

NextMerge == MergeBuild \/ MergeCall \/ ChangeResult

SpecMerge == Init /\ [][NextMerge]_vars

\* ---- concurrent Encode and Decode calls on the shared Encoding ----
\* the instance a MergeHeaders call returned
MergedInstance(mc) == IF mc.ref = "a" THEN mc.a ELSE IF mc.ref = "b" THEN mc.b ELSE mc.m

\* a GetHeaders that sets the algorithm in the signer's own Headers and
\* returns them
GetHeadersInOwn(s) ==
    With(SetProtected(s.Headers, GoString("alg"), GoInt64(s.alg.Value)).h, LAMBDA h :
        [s |-> [s EXCEPT !.Headers = h], h |-> h])

\* Signer.GetHeaders with the instances it touches: the signer afterwards and
\* the Headers returned (h is new; MergeHeaders is handed s.Headers and h)
GetHeadersCall(s) ==
    With(MergeHeadersCall(s.Headers,
                          SetProtected(NewHeaders, GoString("alg"), GoInt64(s.alg.Value)).h),
         LAMBDA mc : [s |-> [s EXCEPT !.Headers = mc.a], h |-> MergedInstance(mc)])

\* the message with s as its signer i
WithSigner(m, i, s) ==
    IF m.kind = "Sign1" THEN [m EXCEPT !.signer = s] ELSE [m EXCEPT !.signers[i] = s]

\* the messages several callers encode at once: single-signer and two-signer
\* messages with content, with and without headers of their own and of their
\* signers
SharedMessages ==
    {[NewSign1Message EXCEPT !.content = "test", !.Headers = h, !.signer = s] :
        h \in {NewHeaders} \cup {ProducerHeaders(NewHeaders, c) : c \in MultiHeaderCalls},
        s \in MultiHeaderSigners}
    \cup {[NewSignMessage EXCEPT !.content = "test", !.Headers = h, !.signers = <<s1, s2>>] :
            h \in {ProducerHeaders(NewHeaders, c) : c \in {c \in MultiHeaderCalls : ~c.protected}},
            s1 \in MultiSigners, s2 \in MultiHeaderSigners \ MultiSigners}

\* the Configs handed to Decode: none, or the matching verifier per signature
\* and a Verified callback
SharedConfigs(m) ==
    {NilConfig,
     Config([i \in 1..Len(SignersOf(m)) |->
                [vs |-> <<ToVerifier(SignersOf(m)[i]).v>>, err |-> NoError]], TRUE)}

\* a message is built and encoded once; the message and the bytes are what
\* the callers share from then on
SharedSetup ==
    /\ msg = NoMessage
    /\ \E m \in SharedMessages :
        \E rnd \in RandSeqs(SignersOf(m)) :
            \E r \in {EncodeWithExternal(m, "", rnd)} :
                /\ msg' = m
                /\ enc' = [called |-> TRUE, external |-> "", res |-> r]
                /\ wire' = r.data
    /\ UNCHANGED <<dec, headerVars, ctor, prim, inflight>>

\* a caller enters EncodeWithExternal(msg, external) or
\* DecodeWithExternal(wire, external, config); the record keeps what it was given
BeginCall ==
    /\ msg # NoMessage
    /\ \E p \in Callers, op \in {"Encode", "Decode"}, external \in Externals,
          config \in SharedConfigs(msg), rnd \in RandSeqs(SignersOf(msg)) :
        /\ inflight[p].pc = "idle"
        /\ op = "Encode" => config = NilConfig
        /\ inflight' = [inflight EXCEPT ![p] =
                [pc |-> IF op = "Decode" THEN "Decode"
                        ELSE IF msg.kind = "Sign1" THEN "GetHeaders" ELSE "Protected",
                 op |-> op, external |-> external, config |-> config, rnd |-> rnd,
                 given |-> [msg |-> msg, wire |-> wire],
                 i |-> 1, ph |-> AbsentBytes, sheaders |-> NewHeaders, h |-> NewHeaders,
                 entries |-> <<>>, res |-> NoData]]
    /\ UNCHANGED <<pipelineVars, headerVars, ctor, prim>>

\* SignMessage.sign: ph, err := e.marshal(m.Headers.protected)
EncodeProtected ==
    \E p \in Callers :
        /\ inflight[p].pc = "Protected"
        /\ inflight' = [inflight EXCEPT ![p].pc = "GetHeaders",
                                        ![p].ph = MarshalProtected(msg.Headers.protected)]
        /\ UNCHANGED <<pipelineVars, headerVars, ctor, prim>>

\* sheaders, err := signer.GetHeaders(), of the signer or of signer i
EncodeGetHeaders ==
    \E p \in Callers :
        /\ inflight[p].pc = "GetHeaders"
        /\ \E r \in {GetHeadersCall(SignersOf(msg)[inflight[p].i])} :
            /\ msg' = WithSigner(msg, inflight[p].i, r.s)
            /\ inflight' = [inflight EXCEPT ![p].pc = IF msg.kind = "Sign1" THEN "Merge"
                                                      ELSE "Sign",
                                            ![p].sheaders = r.h]
        /\ UNCHANGED <<wire, enc, dec, headerVars, ctor, prim>>

\* Sign1Message.sign: h := MergeHeaders(m.Headers, sheaders)
EncodeMerge ==
    \E p \in Callers :
        /\ inflight[p].pc = "Merge"
        /\ \E mc \in {MergeHeadersCall(msg.Headers, inflight[p].sheaders)} :
            /\ msg' = [msg EXCEPT !.Headers = mc.a]
            /\ inflight' = [inflight EXCEPT ![p].pc = "Sign",
                                            ![p].sheaders = mc.b,
                                            ![p].h = MergedInstance(mc)]
        /\ UNCHANGED <<wire, enc, dec, headerVars, ctor, prim>>

\* the protected bytes, the digest and signer.Sign: of Sign1Message.sign, with
\* the Marshal of the tagged structure, or of one pass of the loop of
\* SignMessage.sign
EncodeSign ==
    \E p \in Callers :
        /\ inflight[p].pc = "Sign"
        /\ \E c \in {inflight[p]} :
           \E ph \in {MarshalProtected(IF msg.kind = "Sign1" THEN c.h.protected
                                       ELSE c.sheaders.protected)} :
           \E sg \in {Sign(SignersOf(msg)[c.i], c.rnd[c.i],
                           IF msg.kind = "Sign1"
                           THEN Sign1GetDigest(ph, msg.content, c.external)
                           ELSE SignGetDigest(c.ph, msg.content, ph, c.external))} :
                inflight' = [inflight EXCEPT ![p] =
                    IF sg.err # NoError
                    THEN [c EXCEPT !.pc = "done", !.res = EncodeResult(NoData, sg.err, FALSE)]
                    ELSE IF msg.kind = "Sign1"
                    THEN [c EXCEPT !.pc = "done",
                                   !.res = EncodeResult(
                                        Data(MessageTagSign1, ph, MarshalMap(c.h.unprotected),
                                             msg.content, sg.sig, <<>>), NoError, FALSE)]
                    ELSE [c EXCEPT !.pc = IF c.i < Len(msg.signers) THEN "GetHeaders"
                                          ELSE "Marshal",
                                   !.i = IF c.i < Len(msg.signers) THEN c.i + 1 ELSE c.i,
                                   !.entries = Append(@,
                                        [Protected |-> ph,
                                         Unprotected |-> MarshalMap(c.sheaders.unprotected),
                                         Signature |-> sg.sig])]]
        /\ UNCHANGED <<pipelineVars, headerVars, ctor, prim>>

\* the Marshal of the tagged multi-signer structure, which reads the
\* unprotected map and the payload the structure refers to
EncodeMarshal ==
    \E p \in Callers :
        /\ inflight[p].pc = "Marshal"
        /\ inflight' = [inflight EXCEPT ![p].pc = "done",
                ![p].res = EncodeResult(
                    Data(MessageTagSign, inflight[p].ph, MarshalMap(msg.Headers.unprotected),
                         msg.content, NilSignature, inflight[p].entries), NoError, FALSE)]
        /\ UNCHANGED <<pipelineVars, headerVars, ctor, prim>>

\* DecodeWithExternal reads the bytes, the Config and the Verifiers, and
\* builds the message it returns
DecodeCall ==
    \E p \in Callers :
        /\ inflight[p].pc = "Decode"
        /\ \E r \in DecodeWithExternal(wire, inflight[p].external, inflight[p].config) :
            inflight' = [inflight EXCEPT ![p].pc = "done", ![p].res = r]
        /\ UNCHANGED <<pipelineVars, headerVars, ctor, prim>>

NextShared ==
    \/ SharedSetup
    \/ BeginCall
    \/ EncodeProtected
    \/ EncodeGetHeaders
    \/ EncodeMerge
    \/ EncodeSign
    \/ EncodeMarshal
    \/ DecodeCall

SpecShared == Init /\ [][NextShared]_vars

\* ---- bytes whose unprotected map was changed on the way ----
\* the entries put into the unprotected map of the bytes: the algorithm, the
\* critical list, the key id and a label that is no common header
UnprotectedEntries ==
    {[k |-> k, v |-> v] :
        k \in {GoInt64(1), GoInt64(2), GoInt64(4), GoString("x")},
        v \in {GoInt64(-7), GoString("x")}}

\* the unprotected map of the message body is outside every signature: an
\* entry is put into it between Encode and Decode
TamperUnprotected ==
    /\ wire # NoData /\ wire = enc.res.data /\ ~dec.called
    /\ \E e \in UnprotectedEntries :
        wire' = [wire EXCEPT !.Unprotected = MapPut(@, MarshalValue(e.k), MarshalValue(e.v))]
    /\ UNCHANGED <<msg, enc, dec, headerVars, ctor, prim, inflight>>

NextUnprotected == SharedSetup \/ TamperUnprotected \/ Decode

SpecUnprotected == Init /\ [][NextUnprotected]_vars

(***************************************************************************)
(* Properties                                                              *)
(***************************************************************************)
\* Encode returned bytes
Encoded == enc.called /\ enc.res.err = NoError /\ ~enc.res.panicked

\* the bytes handed to Decode are those Encode returned
Untampered == wire = enc.res.data

\* the number of signatures the data in flight carries
NumSignatures == IF wire.tag = MessageTagSign1 THEN 1 ELSE Len(wire.Signatures)

\* the resolver returns, for each signature, the verifier of the signer that made it
MatchingResolver ==
    /\ ~dec.config.isNil
    /\ \A i \in 1..Len(SignersOf(msg)) :
        dec.config.results[i] = [vs |-> <<ToVerifier(SignersOf(msg)[i]).v>>, err |-> NoError]

\* Decode recorded a call of this name for signature i with this outcome
Called(name, i, err) ==
    \E k \in 1..Len(dec.res.log) :
        /\ dec.res.log[k].call = name
        /\ dec.res.log[k].sig = i
        /\ dec.res.log[k].err = err

\* ---- C1 ----
\* C1: a single-signer message under any of the seven algorithms, encoded and
\* then decoded with the same external data and a resolver that returns the
\* verifier matching its signer, decodes with no error to a message with the
\* content of the original.
C1_RoundTrip ==
    (dec.called /\ msg.kind = "Sign1" /\ Encoded /\ Untampered
        /\ dec.external = enc.external /\ MatchingResolver)
    => (dec.res.err = NoError /\ dec.res.kind = "Sign1" /\ dec.res.content = msg.content)

C1_Witness ==
    /\ dec.called /\ msg.kind = "Sign1" /\ Encoded /\ Untampered
    /\ dec.external = enc.external /\ MatchingResolver
    /\ msg.signer.alg.Name = "ES384" /\ msg.content = "test"
    /\ dec.res.err = NoError /\ dec.res.content = "test"

\* ---- C2 ----
\* C2: when the payload, protected header bytes or a signature of an encoded
\* message was changed before Decode, and the resolver returns the verifiers of
\* the original signers, Decode returns ErrVerification.
C2_TamperDetected ==
    (dec.called /\ Encoded /\ ~Untampered /\ wire.tag = enc.res.data.tag
        /\ dec.external = enc.external /\ MatchingResolver)
    => dec.res.err = ErrVerification

\* a changed signature of a single-signer message is answered with ErrVerification
C2_Witness ==
    /\ dec.called /\ Encoded /\ msg.kind = "Sign1" /\ MatchingResolver
    /\ dec.external = enc.external
    /\ wire = [enc.res.data EXCEPT !.Signature.intact = FALSE]
    /\ dec.res.err = ErrVerification

\* ---- C3 ----
\* every signature of the data was validated, and there was at least one:
\* GetVerifiers was called for it and a Verifier accepted it
AllSignaturesValidated ==
    /\ NumSignatures >= 1
    /\ \A i \in 1..NumSignatures :
        Called("GetVerifiers", i, NoError) /\ Called("Verify", i, NoError)

\* C3: Decode returns no error only if every signature of the message, and at
\* least one, was validated by a Verifier that GetVerifiers returned.
C3_NoErrorOnlyIfValidated ==
    (dec.called /\ dec.res.err = NoError) => AllSignaturesValidated

\* a nil Config never decodes a signed message without error
C3_Witness ==
    /\ dec.called /\ dec.config.isNil /\ NumSignatures >= 1
    /\ dec.res.err = ErrVerification

\* ---- C4 ----
\* the labels a Headers instance holds in both of its maps
InBoth(h) == (DOMAIN h.protected) \cap (DOMAIN h.unprotected)

\* C4: the result of MergeHeaders(a, b) holds no label in both its protected and
\* its unprotected map.
C4_MergeDisjoint == hLast.op = "MergeHeaders" => InBoth(hM) = {}

\* a label unprotected in a and protected in a is merged into protected only
C4_Witness ==
    /\ hLast.op = "MergeHeaders"
    /\ InBoth(hA) # {}
    /\ InBoth(hM) = {}
    /\ InBoth(hA) \subseteq DOMAIN hM.protected

\* ---- C5 ----
\* the key names the algorithm or the critical label
ForcedLabel(k) ==
    \/ k.t \in {"int", "int64", "uint"} /\ k.n \in {1, 2}
    \/ k.t = "string" /\ k.s \in {"alg", "crit"}

\* C5: after any sequence of Set, SetProtected and Delete calls, neither the
\* algorithm label nor the critical label is in the unprotected map.
C5_ForcedProtected ==
    \A h \in {hA, hB} : \A k \in DOMAIN h.unprotected : ~ForcedLabel(k)

\* Set with the critical label given as an int stored the value in protected
C5_Witness ==
    /\ hLast.op = "Set" /\ hLast.key = GoInt(2) /\ hLast.err = NoError
    /\ GoInt64(2) \in DOMAIN HeadersOf(hLast.target).protected
    /\ HeadersOf(hLast.target).protected[GoInt64(2)] = hLast.value
    /\ DOMAIN HeadersOf(hLast.target).unprotected = {}

\* ---- C6 ----
\* the family of the Go type of a key that the constructor's switch knows
KeyFamilies == {"RSA", "ECDSA", "ED25519"}

\* the key is of a type the called constructor switches over: a private key
\* for NewSigner, a public key for NewVerifier
ProperKey ==
    /\ ctor.key.fam \in KeyFamilies
    /\ ctor.key.part = IF ctor.op = "NewSigner" THEN "private" ELSE "public"

\* the constructor was called with one of the seven algorithms
SigningCall == ctor.op \in {"NewSigner", "NewVerifier"} /\ ctor.alg \in SigningAlgorithms

\* C6: NewSigner and NewVerifier, called with one of the seven algorithms and a
\* key of another family than the algorithm's, return ErrAlgorithmNotMatchKey
\* and a nil instance.
C6_FamilyMismatch ==
    (SigningCall /\ ProperKey /\ ctor.key.fam # getAlg(ctor.alg).Type)
    => (ctor.err = ErrAlgorithmNotMatchKey /\ ctor.isNil)

C6_Witness ==
    /\ ctor.op = "NewSigner" /\ ctor.alg = "EdDSA"
    /\ ctor.key = Key("ECDSA", "private", 256, 1)
    /\ ctor.err = ErrAlgorithmNotMatchKey /\ ctor.isNil

\* ---- C7 ----
\* the size constraint of the algorithm on a key of its family
MeetsSizeConstraint(a, key) ==
    CASE a.Type = "RSA" -> key.bits >= 2048
      [] a.Type = "ECDSA" -> key.bits = a.CurveBits
      [] OTHER -> TRUE

\* the error of a key that does not meet the constraint
SizeError(a) == IF a.Type = "RSA" THEN ErrMinKeySize(2048) ELSE ErrInvalidEllipticCurve

\* C7: NewSigner and NewVerifier accept a key of the algorithm's family exactly
\* when it meets the size constraint: an RSA modulus below 2048 bits fails with
\* ErrMinKeySize{2048}, a curve of another bit size with ErrInvalidEllipticCurve,
\* both with a nil instance.
C7_SizeConstraint ==
    (SigningCall /\ ProperKey /\ ctor.key.fam = getAlg(ctor.alg).Type)
    => IF MeetsSizeConstraint(getAlg(ctor.alg), ctor.key)
       THEN ctor.err = NoError /\ ~ctor.isNil
       ELSE ctor.err = SizeError(getAlg(ctor.alg)) /\ ctor.isNil

\* a 1024-bit RSA key is refused under PS256
C7_Witness ==
    /\ ctor.op = "NewVerifier" /\ ctor.alg = "PS256"
    /\ ctor.key = Key("RSA", "public", 1024, 1)
    /\ ctor.err = ErrMinKeySize(2048) /\ ctor.isNil

\* ---- C8 ----
\* C8: NewSigner and NewVerifier, called with a non-nil key and an algorithm
\* identifier that is not one of the seven, return ErrUnsupportedAlgorithm and
\* a nil instance.
C8_UnsupportedAlgorithm ==
    (ctor.op \in {"NewSigner", "NewVerifier"} /\ ctor.key # NilKey
        /\ ctor.alg \notin SigningAlgorithms)
    => (ctor.err = ErrUnsupportedAlgorithm /\ ctor.isNil)

C8_Witness ==
    /\ ctor.op = "NewSigner" /\ ctor.alg = "RS256"
    /\ ctor.key = Key("RSA", "private", 2048, 1)
    /\ ctor.err = ErrUnsupportedAlgorithm /\ ctor.isNil

\* ---- C9 ----
\* the resolver returns no verifiers, and no error, for one of the signatures
NoVerifiersForOne ==
    /\ ~dec.config.isNil
    /\ \E i \in 1..NumSignatures : dec.config.results[i] = [vs |-> <<>>, err |-> NoError]

\* C9: a message signed by A and B decodes with no error and the original
\* content when the resolver returns only A's verifier for A's signature and
\* only B's for B's; Decode with a resolver that returns no verifiers for any
\* one signature returns an error.
C9_PerSignatureVerifiers ==
    /\ (dec.called /\ msg.kind = "Sign" /\ Len(msg.signers) = 2 /\ Encoded /\ Untampered
            /\ dec.external = enc.external /\ MatchingResolver)
       => (dec.res.err = NoError /\ dec.res.kind = "Sign" /\ dec.res.content = msg.content)
    /\ (dec.called /\ msg.kind = "Sign" /\ NumSignatures >= 1 /\ NoVerifiersForOne)
       => dec.res.err # NoError

\* B's signature has no verifiers although A's was validated
C9_Witness ==
    /\ dec.called /\ msg.kind = "Sign" /\ Len(msg.signers) = 2 /\ Untampered
    /\ msg.signers[1] # msg.signers[2]
    /\ dec.external = enc.external /\ ~dec.config.isNil
    /\ dec.config.results[1] = [vs |-> <<ToVerifier(msg.signers[1]).v>>, err |-> NoError]
    /\ dec.config.results[2] = [vs |-> <<>>, err |-> NoError]
    /\ Called("Verify", 1, NoError)
    /\ dec.res.err = ErrVerification

\* ---- C10 ----
\* the headers of the body and of every signature entry of the data parse
HeadersParse ==
    /\ \A mh \in newHeaders(wire.Protected, wire.Unprotected) : mh.err = NoError
    /\ \A i \in 1..Len(wire.Signatures) :
        \A sh \in newHeaders(wire.Signatures[i].Protected, wire.Signatures[i].Unprotected) :
            sh.err = NoError

\* what signature i of the data fails with under the Config of the Decode call:
\* the resolver's error, ErrVerification when there are no verifiers, the last
\* verifier's error when none accepts, nil when one accepts
SignatureError(i) ==
    LET got == dec.config.results[i]
        digest == SignGetDigest(wire.Protected, wire.Payload,
                                wire.Signatures[i].Protected, dec.external)
        errs == [k \in 1..Len(got.vs) |-> Verify(got.vs[k], digest, wire.Signatures[i].Signature)]
    IN  IF dec.config.isNil THEN ErrVerification
        ELSE IF got.err # NoError THEN got.err
        ELSE IF Len(got.vs) = 0 THEN ErrVerification
        ELSE IF \E k \in 1..Len(got.vs) : errs[k] = NoError THEN NoError
        ELSE errs[Len(got.vs)]

FailingSignatures == {i \in 1..Len(wire.Signatures) : SignatureError(i) # NoError}

FirstFailing == CHOOSE i \in FailingSignatures : \A j \in FailingSignatures : i <= j

\* C10: multi-signer Decode handles the signatures in wire order and ends at
\* the first that fails, with that signature's error: it makes no call for a
\* later signature, and returns a non-nil Message with the wire payload.
C10_StopsAtFirstFailure ==
    (dec.called /\ wire.tag = MessageTagSign /\ HeadersParse)
    => /\ \A k \in 1..Len(dec.res.log) : \A j \in 1..k : dec.res.log[j].sig <= dec.res.log[k].sig
       /\ FailingSignatures # {} =>
            /\ dec.res.err = SignatureError(FirstFailing)
            /\ \A k \in 1..Len(dec.res.log) : dec.res.log[k].sig <= FirstFailing
            /\ \A i \in 1..(FirstFailing - 1) : Called("Verify", i, NoError)
            /\ dec.res.kind = "Sign"
            /\ dec.res.content = wire.Payload

\* the first of two signatures fails at the resolver, the second would verify
C10_Witness ==
    /\ dec.called /\ wire.tag = MessageTagSign /\ Len(wire.Signatures) = 2 /\ Untampered
    /\ dec.external = enc.external /\ ~dec.config.isNil
    /\ dec.config.results[1] = [vs |-> <<>>, err |-> ErrResolver(1)]
    /\ dec.config.results[2] = [vs |-> <<ToVerifier(msg.signers[2]).v>>, err |-> NoError]
    /\ dec.res.err = ErrResolver(1)
    /\ dec.res.kind = "Sign" /\ dec.res.content = "test"
    /\ Len(dec.res.log) = 1

\* ---- C11 ----
\* Decode of single-signer data reached the resolver, which returned no error
ResolverAnswered ==
    /\ dec.called /\ wire.tag = MessageTagSign1 /\ ~dec.config.isNil
    /\ dec.config.results[1].err = NoError
    /\ Called("GetVerifiers", 1, NoError)

\* the list of verifiers the resolver returned for the single signature
Returned == dec.config.results[1].vs

\* the positions of the list whose verifier accepts the signature of the data
Accepting ==
    {k \in 1..Len(Returned) :
        Verify(Returned[k], Sign1GetDigest(wire.Protected, wire.Payload, dec.external),
               wire.Signature) = NoError}

\* C11: single-signer Decode with a resolver that returns no error succeeds
\* exactly when at least one verifier of the returned list accepts the
\* signature; with an empty list it returns ErrVerification; the returned
\* Message carries the wire payload.
C11_VerifierListDecides ==
    ResolverAnswered
    => /\ (dec.res.err = NoError) <=> (Accepting # {})
       /\ Len(Returned) = 0 => dec.res.err = ErrVerification
       /\ dec.res.kind = "Sign1"
       /\ dec.res.content = wire.Payload

\* an empty list: ErrVerification with the payload
C11_Witness ==
    /\ ResolverAnswered /\ Untampered /\ dec.external = enc.external
    /\ Returned = <<>>
    /\ dec.res.err = ErrVerification
    /\ dec.res.kind = "Sign1" /\ dec.res.content = "test"

\* ---- C12 ----
\* the calls of the given name that Decode recorded, in order
CallsOf(name) == SelectSeq(dec.res.log, LAMBDA c : c.call = name)

\* the first position of the list whose verifier accepts
FirstAccepting == CHOOSE k \in Accepting : \A j \in Accepting : k <= j

\* C12: verifySignature calls Verify on the returned verifiers in list order
\* and stops at the first that accepts: Verified, when set, is called exactly
\* once, with that verifier, right after its Verify returned nil, and no later
\* verifier is tried; when none accepts, every verifier is tried, Verified is
\* not called and the error is that of the last verifier.
C12_FirstAcceptingVerifier ==
    (ResolverAnswered /\ Len(Returned) > 0)
    => LET tried == CallsOf("Verify")
           reported == CallsOf("Verified")
           last == dec.res.log[Len(dec.res.log)]
       IN  /\ \A k \in 1..Len(tried) : k <= Len(Returned) /\ tried[k].v = Returned[k]
           /\ IF Accepting # {}
              THEN /\ Len(tried) = FirstAccepting
                   /\ \A k \in 1..Len(tried) :
                        (tried[k].err = NoError) <=> (k = FirstAccepting)
                   /\ Len(reported) = IF dec.config.verified THEN 1 ELSE 0
                   /\ dec.config.verified
                        => /\ last.call = "Verified" /\ last.v = Returned[FirstAccepting]
                           /\ dec.res.log[Len(dec.res.log) - 1].call = "Verify"
                           /\ dec.res.log[Len(dec.res.log) - 1].v = Returned[FirstAccepting]
                           /\ dec.res.log[Len(dec.res.log) - 1].err = NoError
                   /\ ~dec.config.verified => last.call = "Verify"
                   /\ dec.res.err = NoError
              ELSE /\ Len(tried) = Len(Returned)
                   /\ Len(reported) = 0
                   /\ last.call = "Verify"
                   /\ dec.res.err = last.err
                   /\ dec.res.err # NoError

\* the first of two verifiers accepts: one Verify call, then Verified with it
C12_Witness ==
    /\ ResolverAnswered /\ Untampered /\ dec.external = enc.external
    /\ Returned = <<ToVerifier(msg.signer).v, Stranger>>
    /\ dec.config.verified
    /\ Len(dec.res.log) = 3
    /\ dec.res.log[2].call = "Verify" /\ dec.res.log[2].v = ToVerifier(msg.signer).v
    /\ dec.res.log[3].call = "Verified" /\ dec.res.log[3].v = ToVerifier(msg.signer).v
    /\ dec.res.err = NoError

\* ---- C13 ----
\* C13: when GetVerifiers returns an error for a signature, Decode returns that
\* error value, and makes no Verify and no Verified call for that signature.
C13_ResolverErrorPropagates ==
    (dec.called /\ ~dec.config.isNil)
    => \A i \in 1..Len(dec.config.results) :
        (dec.config.results[i].err # NoError
            /\ Called("GetVerifiers", i, dec.config.results[i].err))
        => /\ dec.res.err = dec.config.results[i].err
           /\ \A k \in 1..Len(dec.res.log) :
                dec.res.log[k].sig = i => dec.res.log[k].call = "GetVerifiers"
           /\ dec.res.log[Len(dec.res.log)].call = "GetVerifiers"
           /\ dec.res.log[Len(dec.res.log)].sig = i

\* the resolver fails for the signature of a single-signer message
C13_Witness ==
    /\ dec.called /\ wire.tag = MessageTagSign1 /\ Untampered /\ ~dec.config.isNil
    /\ dec.config.results[1].err = ErrResolver(1)
    /\ dec.res.err = ErrResolver(1)
    /\ Len(dec.res.log) = 1 /\ dec.res.log[1].call = "GetVerifiers"

\* ---- C14 ----
\* C14: Decode of well-formed tagged data whose tag is neither 18 nor 98
\* returns ErrUnsupportedMessageTag with that tag and a nil Message, and never
\* calls GetVerifiers.
C14_UnsupportedTag ==
    (dec.called /\ wire.tag \notin {MessageTagSign1, MessageTagSign})
    => /\ dec.res.err = ErrUnsupportedMessageTag(wire.tag)
       /\ dec.res.kind = "nil"
       /\ dec.res.log = <<>>

\* data tagged 97 handed to Decode with a resolver that would accept
C14_Witness ==
    /\ dec.called /\ wire.tag = 97 /\ MatchingResolver
    /\ wire = [enc.res.data EXCEPT !.tag = 97]
    /\ Len(wire.Signatures) = 2
    /\ dec.res.err = ErrUnsupportedMessageTag(97)
    /\ dec.res.kind = "nil"
    /\ dec.res.log = <<>>

\* ---- C15 ----
\* the CBOR item of the algorithm label
AlgLabel == MarshalValue(GoInt64(1))

\* C15: GetHeaders of a Signer returns headers whose protected entry under
\* label 1 is the numeric value of the signer's algorithm, which
\* GetProtected("alg") reads back as the algorithm's name, whatever the
\* signer's own Headers hold under the label; and the protected header bytes of
\* an encoded single-signer message carry the signer's algorithm whatever the
\* message's Headers set.
C15_SignerAlgorithmWins ==
    /\ (msg.kind = "Sign1" /\ msg.signer # NilSigner)
       => /\ GetHeaders(msg.signer).err = NoError
          /\ MapGet(GetHeaders(msg.signer).h.protected, GoInt64(1))
                = GoInt64(msg.signer.alg.Value)
          /\ GetProtected(GetHeaders(msg.signer).h, GoString("alg"))
                = [v |-> GoString(msg.signer.alg.Name), err |-> NoError]
          /\ GoInt64(1) \notin DOMAIN GetHeaders(msg.signer).h.unprotected
    /\ (msg.kind = "Sign1" /\ Encoded)
       => /\ wire.Protected.form = "map"
          /\ AlgLabel \in DOMAIN wire.Protected.m
          /\ wire.Protected.m[AlgLabel] = MarshalValue(GoInt64(msg.signer.alg.Value))
          /\ AlgLabel \notin DOMAIN wire.Unprotected

\* the message sets PS512, the signer's own headers set EdDSA, the signer signs
\* with ES256: the encoded protected header says ES256
C15_Witness ==
    /\ msg.kind = "Sign1" /\ Encoded
    /\ msg.signer.alg.Name = "ES256"
    /\ MapGet(msg.Headers.protected, GoInt64(1)) = GoInt64(-39)
    /\ MapGet(msg.signer.Headers.protected, GoInt64(1)) = GoInt64(-8)
    /\ wire.Protected.m[AlgLabel] = MarshalValue(GoInt64(-7))

\* ---- C16 ----
\* the coordinate length of a curve in bytes
CoordinateBytes(bitSize) == (bitSize + 7) \div 8

\* Sign returned a signature made with an elliptic-curve key
SignedWithCurve ==
    prim.op = "Sign" /\ prim.err = NoError /\ prim.s.privateKey.fam = "ECDSA"

\* C16: every signature Signer.Sign returns for an elliptic-curve key has
\* length 2*ceil(bitSize/8) (64 for P-256, 96 for P-384, 132 for P-521), its
\* halves being r and s as big-endian integers left-padded with zero bytes,
\* also when the minimal encoding of r or s is shorter than a coordinate.
C16_FixedWidthSignature ==
    SignedWithCurve
    => LET n == CoordinateBytes(prim.s.privateKey.bits)
       IN  /\ prim.sig.len = 2 * n
           /\ prim.sig.len = CASE prim.s.alg.Name = "ES256" -> 64
                               [] prim.s.alg.Name = "ES384" -> 96
                               [] prim.s.alg.Name = "ES512" -> 132
           /\ Len(prim.halves) = 2
           /\ \A k \in 1..2 :
                /\ ~prim.halves[k].panicked
                /\ prim.halves[k].zeros >= 0
                /\ prim.halves[k].zeros + prim.halves[k].body = n
           /\ prim.halves[1].body = CoordinateBytes(prim.rnd.rBits)
           /\ prim.halves[2].body = CoordinateBytes(prim.rnd.sBits)

\* a P-521 signature whose r needs 58 bytes and whose s needs 65
C16_Witness ==
    /\ SignedWithCurve /\ prim.s.alg.Name = "ES512"
    /\ prim.rnd = [rBits |-> 457, sBits |-> 513]
    /\ prim.sig.len = 132
    /\ prim.halves[1].zeros = 8 /\ prim.halves[2].zeros = 1

\* ---- C17 ----
\* the signature handed to Verify was made by the verifier's key pair, with
\* the verifier's algorithm, over the bytes handed to Verify, and is unchanged
Genuine ==
    /\ prim.sig.intact
    /\ prim.sig.pub = prim.v.publicKey
    /\ prim.sig.input = Prehash(prim.v.alg.Hash, prim.digest)
    /\ prim.sig.scheme = CASE prim.v.alg.Type = "RSA" -> "PSS"
                            [] prim.v.alg.Type = "ECDSA" -> "ECDSA"
                            [] OTHER -> "Ed25519"

\* C17: Verifier.Verify returns ErrVerification for every signature that does
\* not verify, under a verifier of any of the three key families; an
\* elliptic-curve verifier returns it for every signature whose length is not
\* 2*ceil(bitSize/8) without running the ECDSA check; a signature made under
\* another algorithm or another key is rejected this way.
C17_VerificationFailed ==
    prim.op = "Verify"
    => /\ Genuine => prim.err = NoError
       /\ ~Genuine => prim.err = ErrVerification
       /\ (prim.v.alg.Type = "ECDSA"
            /\ prim.sig.len # 2 * CoordinateBytes(prim.v.publicKey.bits))
          => (prim.err = ErrVerification /\ ~prim.checked)

\* an ES256 verifier handed a signature of the P-384 key: 96 bytes, not 64
C17_Witness ==
    /\ prim.op = "Verify" /\ prim.v.alg.Name = "ES256"
    /\ prim.sig.scheme = "ECDSA" /\ prim.sig.intact /\ prim.sig.len = 96
    /\ prim.err = ErrVerification /\ ~prim.checked

\* ---- C18 ----
\* C18: for every Signer NewSigner accepted, ToVerifier returns no error and a
\* Verifier with the signer's algorithm and the public key of its private key,
\* and that Verifier accepts every signature the signer's Sign returns over
\* the same bytes.
C18_ToVerifierAccepts ==
    prim.op = "Sign"
    => /\ ToVerifier(prim.s).err = NoError
       /\ ToVerifier(prim.s).v # NilVerifier
       /\ ToVerifier(prim.s).v.alg = prim.s.alg
       /\ ToVerifier(prim.s).v.publicKey = Public(prim.s.privateKey)
       /\ prim.err = NoError
            => VerifyOutcome(ToVerifier(prim.s).v, prim.digest, prim.sig)
                = [err |-> NoError, checked |-> TRUE]

\* a PS384 signer with a key of 2047 bits, which NewSigner accepts
C18_Witness ==
    /\ prim.op = "Sign" /\ prim.err = NoError
    /\ prim.s.alg.Name = "PS384" /\ prim.s.privateKey.bits = 2047
    /\ ToVerifier(prim.s).err = NoError
    /\ Verify(ToVerifier(prim.s).v, prim.digest, prim.sig) = NoError

\* ---- C19 ----
\* what the verifier of the signer of signature i answers for that signature
\* of the data in flight when the to-be-signed bytes are built with external
OwnVerdict(i, external) ==
    IF wire.tag = MessageTagSign1
    THEN Verify(ToVerifier(msg.signer).v,
                Sign1GetDigest(wire.Protected, wire.Payload, external), wire.Signature)
    ELSE Verify(ToVerifier(msg.signers[i]).v,
                SignGetDigest(wire.Protected, wire.Payload, wire.Signatures[i].Protected,
                              external),
                wire.Signatures[i].Signature)

\* C19: a message encoded with external data x decodes with no error with x
\* and the matching verifiers, and decoding the same bytes with other external
\* data returns ErrVerification; every signature of the data verifies under
\* x and under no other external data.
C19_ExternalDataBound ==
    (dec.called /\ Encoded /\ Untampered /\ MatchingResolver)
    => /\ dec.external = enc.external => dec.res.err = NoError
       /\ dec.external # enc.external => dec.res.err = ErrVerification
       /\ \A i \in 1..NumSignatures : \A x \in Externals :
            OwnVerdict(i, x) = IF x = enc.external THEN NoError ELSE ErrVerification

\* a message of two signers encoded with "aad" and decoded with no external
\* data: the first signature already fails
C19_Witness ==
    /\ dec.called /\ Encoded /\ Untampered /\ MatchingResolver
    /\ msg.kind = "Sign" /\ Len(msg.signers) = 2
    /\ enc.external = "aad" /\ dec.external = ""
    /\ dec.res.err = ErrVerification
    /\ Called("Verify", 1, ErrVerification)
    /\ OwnVerdict(2, "") = ErrVerification /\ OwnVerdict(2, "aad") = NoError

\* ---- C20 ----
\* the code of the common header a label names in one of the three forms, 0
\* when it names none
CodeOf(k) ==
    IF k.t = "string"
    THEN IF \E c \in 1..Len(CommonHeaderNames) : CommonHeaderNames[c] = k.s
         THEN CHOOSE c \in 1..Len(CommonHeaderNames) : CommonHeaderNames[c] = k.s
         ELSE 0
    ELSE IF k.t \in {"int", "int64"} /\ k.n \in 1..Len(CommonHeaderNames) THEN k.n
    ELSE 0

\* the three forms of the label of a common header
FormsOf(c) == {GoString(CommonHeaderNames[c]), GoInt(c), GoInt64(c)}

\* the keys of both maps
KeysOf(h) == (DOMAIN h.protected) \cup (DOMAIN h.unprotected)

\* Set was called, returned no error, and hA is the instance after it
SetDone == hLast.op \in {"Set", "Get"} /\ hLast.err = NoError

\* the label of the Set call is held under the int64 code, or as given when it
\* is no common header, and under no other form
StoredNormalised ==
    IF CodeOf(hLast.key) # 0
    THEN /\ GoInt64(CodeOf(hLast.key)) \in KeysOf(hA)
         /\ KeysOf(hA) \cap (FormsOf(CodeOf(hLast.key)) \ {GoInt64(CodeOf(hLast.key))}) = {}
    ELSE /\ hLast.key.t = "string" => hLast.key \in DOMAIN hA.unprotected
         /\ hLast.key.t \in {"int", "int64"}
            => (GoInt64(hLast.key.n) \in DOMAIN hA.unprotected
                /\ GoInt(hLast.key.n) \notin KeysOf(hA))

\* Get was asked for the label of the Set call in one of its three forms
AskedSameLabel ==
    /\ hLast.op = "Get" /\ hLast.err = NoError
    /\ CodeOf(hLast.key) # 0
    /\ hLast.asked \in FormsOf(CodeOf(hLast.key))

\* the statement as claimed: Get returns the value of the Set call
C20_SameLabel ==
    /\ SetDone => StoredNormalised
    /\ AskedSameLabel => (hLast.gotErr = NoError /\ hLast.got = hLast.value)

\* an int or int64 that is the value of a registry entry, as that entry's name
AlgReadBack(v) ==
    IF v.t \in {"int", "int64"} /\ \E i \in 1..Len(algorithms) : algorithms[i].Value = v.n
    THEN GoString(algorithms[CHOOSE i \in 1..Len(algorithms) : algorithms[i].Value = v.n].Name)
    ELSE v

\* what Get returns for the label of the Set call: the protected value under
\* the code when there is one, the value set otherwise; the algorithm by name
ExpectedGet ==
    IF CodeOf(hLast.key) = 1 THEN AlgReadBack(hLast.value)
    ELSE IF MapGet(hA.protected, GoInt64(CodeOf(hLast.key))) # GoNil
         THEN hA.protected[GoInt64(CodeOf(hLast.key))]
         ELSE hLast.value

\* C20: Set and Get treat the name of a common header, its int code and its
\* int64 code as the same label: after Set(l, v) the label is held under the
\* int64 code only, in the protected map for alg and crit and in the
\* unprotected map otherwise, and Get in any of the three forms returns the
\* non-nil value the protected map holds under the code when there is one,
\* and v otherwise, an algorithm number being returned as the algorithm's
\* name; a label that is no common header is stored as given, a string as
\* string and an int as int64.
C20_SameLabelAmended ==
    /\ SetDone => StoredNormalised
    /\ (SetDone /\ CodeOf(hLast.key) \in {1, 2})
       => /\ GoInt64(CodeOf(hLast.key)) \in DOMAIN hA.protected
          /\ GoInt64(CodeOf(hLast.key)) \notin DOMAIN hA.unprotected
    /\ (SetDone /\ CodeOf(hLast.key) \notin {0, 1, 2})
       => MapGet(hA.unprotected, GoInt64(CodeOf(hLast.key))) = hLast.value
    /\ AskedSameLabel => (hLast.gotErr = NoError /\ hLast.got = ExpectedGet)

\* Set with the int code of the key id, Get with its name
C20_Witness ==
    /\ AskedSameLabel
    /\ hLast.key = GoInt(4) /\ hLast.asked = GoString("kid")
    /\ hLast.value = GoInt64(5) /\ hLast.got = GoInt64(5)
    /\ DOMAIN hA.unprotected = {GoInt64(4)}
    /\ DOMAIN hA.protected = {}

\* ---- C21 ----
\* the registry entries with the name
EntriesNamed(name) == {i \in 1..Len(algorithms) : algorithms[i].Name = name}

\* the registry entries with the numeric value
EntriesValued(n) == {i \in 1..Len(algorithms) : algorithms[i].Value = n}

\* a getter was called with the algorithm label after the SetProtected call
AlgRead ==
    /\ hLast.op \in {"Get", "GetProtected"}
    /\ hLast.after = "SetProtected"
    /\ hLast.asked \in AlgLabels

\* C21: names and numeric values are each unique in the registry; SetProtected
\* of the algorithm label with the name of a registry entry stores the entry's
\* numeric value, and with any other value stores the value as given;
\* GetProtected and Get of the algorithm label return the entry's name when
\* the stored number is the numeric value of an entry and the stored value
\* otherwise, so a registry name that was set is the name read back.
C21_AlgorithmByName ==
    /\ \A i, j \in 1..Len(algorithms) :
        (algorithms[i].Name = algorithms[j].Name \/ algorithms[i].Value = algorithms[j].Value)
        => i = j
    /\ hOps = 1 =>
        LET stored == MapGet(hA.protected, GoInt64(1))
            v == hLast.value
        IN  /\ hLast.err = NoError
            /\ DOMAIN hA.protected = {GoInt64(1)} /\ DOMAIN hA.unprotected = {}
            /\ \A i \in 1..Len(algorithms) :
                v = GoString(algorithms[i].Name) => stored = GoInt64(algorithms[i].Value)
            /\ (v.t = "string" /\ EntriesNamed(v.s) = {}) => stored = v
            /\ v.t # "string" => stored = v
            /\ AlgRead =>
                /\ hLast.gotErr = NoError
                /\ \A i \in 1..Len(algorithms) :
                    (stored.t \in {"int", "int64"} /\ stored.n = algorithms[i].Value)
                    => hLast.got = GoString(algorithms[i].Name)
                /\ (stored.t \in {"int", "int64"} /\ EntriesValued(stored.n) = {})
                   => hLast.got = stored
                /\ stored.t = "string" => hLast.got = stored
                /\ (v.t = "string" /\ EntriesNamed(v.s) # {}) => hLast.got = v

\* ES256 set by name under the label's name and read back under its int code
C21_Witness ==
    /\ AlgRead /\ hLast.op = "Get"
    /\ hLast.key = GoString("alg") /\ hLast.asked = GoInt(1)
    /\ hLast.value = GoString("ES256")
    /\ MapGet(hA.protected, GoInt64(1)) = GoInt64(-7)
    /\ hLast.got = GoString("ES256")

\* ---- C22 ----
\* the map key of the entry a label names: the int64 code of a common header
\* name, the int64 of an int, the label itself otherwise
EntryOf(l) ==
    IF CodeOf(l) # 0 THEN GoInt64(CodeOf(l))
    ELSE IF l.t = "int" THEN GoInt64(l.n)
    ELSE l

\* Delete was called with a string, an int or an int64
Deleted == hLast.op = "Delete" /\ hLast.key.t \in {"string", "int", "int64"}

\* m is map before without the key e
Without(m, before, e) ==
    /\ DOMAIN m = (DOMAIN before) \ {e}
    /\ \A k \in DOMAIN m : m[k] = before[k]

\* C22: Delete(l), with l a common header name, an int or an int64, removes
\* the entry l names from the protected and from the unprotected map and
\* leaves every other entry of both maps as it was; a getter called next with
\* a label naming the same entry returns nil and no error.
C22_DeleteBoth ==
    /\ Deleted =>
        /\ Without(hA.protected, hLast.before.protected, EntryOf(hLast.key))
        /\ Without(hA.unprotected, hLast.before.unprotected, EntryOf(hLast.key))
    /\ (/\ hLast.op \in {"Get", "GetProtected"}
        /\ hLast.after = "Delete"
        /\ hLast.key.t \in {"string", "int", "int64"}
        /\ EntryOf(hLast.asked) = EntryOf(hLast.key))
       => (hLast.got = GoNil /\ hLast.gotErr = NoError)

\* the key id was held in both maps and is deleted by name
C22_Witness ==
    /\ Deleted /\ hLast.key = GoString("kid")
    /\ GoInt64(4) \in DOMAIN hLast.before.protected
    /\ GoInt64(4) \in DOMAIN hLast.before.unprotected
    /\ KeysOf(hA) = {}

\* ---- C23 ----
\* a label that is not a string, an int or an int64
OtherKeyType(l) == l.t \notin {"string", "int", "int64"}

\* C23: Set and SetProtected called with a label that is not a string, an int
\* or an int64 return the invalid key type error, and a Set or SetProtected
\* that returns an error leaves the protected and the unprotected map as they
\* were; Get and GetProtected called with such a label return the error.
C23_InvalidKeyType ==
    /\ (hLast.op \in {"Set", "SetProtected"} /\ OtherKeyType(hLast.key))
       => hLast.err = ErrInvalidHeaderKeyType
    /\ (hLast.op \in {"Set", "SetProtected"} /\ hLast.err # NoError)
       => hA = hLast.before
    /\ (hLast.op \in {"Get", "GetProtected"} /\ OtherKeyType(hLast.asked))
       => (hLast.gotErr = ErrInvalidHeaderKeyType /\ hLast.got = GoNil)

\* SetProtected with a uint label on an instance that holds the algorithm,
\* then Get with a uint label
C23_Witness ==
    /\ hLast.op = "Get" /\ hLast.after = "SetProtected"
    /\ hLast.key = GoUint(1) /\ hLast.err = ErrInvalidHeaderKeyType
    /\ hLast.asked = GoUint(1) /\ hLast.gotErr = ErrInvalidHeaderKeyType
    /\ hOps = 2
    /\ DOMAIN hA.protected = {GoInt64(1)} /\ DOMAIN hA.unprotected = {}

\* ---- C24 ----
\* C24: MergeHeaders(a, b) returns an instance that is neither a nor b; its
\* protected map holds exactly the protected labels of a and of b, with b's
\* value where b has the label and a's value otherwise; its unprotected map
\* holds only labels of the unprotected maps of a and b; a and b are as they
\* were before the call, and Set, SetProtected or Delete called on the result
\* afterwards leaves a and b as they were.
C24_MergeNew ==
    /\ hLast.op = "MergeHeaders" =>
        LET a == hLast.before.a
            b == hLast.before.b
        IN  /\ hLast.target = "m"
            /\ hA = a /\ hB = b
            /\ DOMAIN hM.protected = (DOMAIN a.protected) \cup (DOMAIN b.protected)
            /\ \A k \in DOMAIN b.protected : hM.protected[k] = b.protected[k]
            /\ \A k \in (DOMAIN a.protected) \ (DOMAIN b.protected) :
                hM.protected[k] = a.protected[k]
            /\ (DOMAIN hM.unprotected) \subseteq
                    ((DOMAIN a.unprotected) \cup (DOMAIN b.unprotected))
    /\ hLast.op = "Change" => (hA = hLast.before.a /\ hB = hLast.before.b)

\* a and b hold the key id protected with different values, the result held
\* b's value and lost it by Delete, a and b still hold theirs
C24_Witness ==
    /\ hLast.op = "Change" /\ hLast.value = GoString("Delete")
    /\ MapGet(hLast.before.m.protected, GoInt64(4)) = GoInt64(5)
    /\ GoInt64(4) \notin DOMAIN hM.protected
    /\ MapGet(hA.protected, GoInt64(4)) = GoString("ES256")
    /\ MapGet(hB.protected, GoInt64(4)) = GoInt64(5)

\* ---- C25 ----
\* the signers of the non-nil AddSigner calls, in call order
AddedSigners == SelectSeq(Added(msg), LAMBDA s : s # NilSigner)

\* a signer's own protected headers with its algorithm
OwnProtected(s) == MapPut(s.Headers.protected, GoInt64(1), GoInt64(s.alg.Value))

\* Encode of the multi-signer message returned bytes
EncodedMulti ==
    /\ msg.kind = "Sign" /\ enc.called
    /\ enc.res.err = NoError /\ ~enc.res.panicked

\* C25: the signers of a multi-signer message are the arguments of the non-nil
\* AddSigner calls in call order; when Encode returns bytes they hold one
\* signature entry per such signer in that order, entry i carries signer i's
\* own protected headers with its algorithm, and its signature is made with
\* signer i's key over the message-level protected bytes, the entry's
\* protected bytes, the external data and the payload.
C25_SignatureEntries ==
    /\ msg.kind = "Sign" => msg.signers = AddedSigners
    /\ EncodedMulti =>
        /\ wire.tag = MessageTagSign
        /\ Len(wire.Signatures) = Len(AddedSigners)
        /\ \A i \in 1..Len(AddedSigners) :
            LET s == AddedSigners[i]
                e == wire.Signatures[i]
            IN  /\ e.Protected = MarshalProtected(OwnProtected(s))
                /\ e.Signature.intact
                /\ e.Signature.pub = Public(s.privateKey)
                /\ e.Signature.input.data =
                        ToBeSigned("Signature", MarshalProtected(msg.Headers.protected),
                                   e.Protected, enc.external, msg.content)

\* AddSigner with an EdDSA signer holding a protected key id, with nil, and
\* with a PS256 signer; the message holds a protected key id of its own
C25_Witness ==
    /\ EncodedMulti
    /\ Len(Added(msg)) = 3 /\ Added(msg)[2] = NilSigner
    /\ Len(wire.Signatures) = 2
    /\ wire.Signatures[1].Signature.scheme = "Ed25519"
    /\ wire.Signatures[2].Signature.scheme = "PSS"
    /\ DOMAIN wire.Signatures[1].Protected.m = {MarshalValue(GoInt64(1)), MarshalValue(GoInt64(4))}
    /\ DOMAIN wire.Signatures[2].Protected.m = {MarshalValue(GoInt64(1))}
    /\ DOMAIN msg.Headers.protected = {GoInt64(4)}

\* ---- C26 ----
\* Sign was called with an elliptic-curve key
CurveSignCall == prim.op = "Sign" /\ prim.s.privateKey.fam = "ECDSA"

\* the three lengths are pairwise within 1 of each other
PairwiseWithinOne(r, s, d) ==
    /\ r - s \in {-1, 0, 1}
    /\ r - d \in {-1, 0, 1}
    /\ s - d \in {-1, 0, 1}

\* the number of 64-bit words of an integer of the given bit length
WordLen(bitLen) == IF bitLen = 0 THEN 0 ELSE ((bitLen - 1) \div 64) + 1

\* the statement as claimed: Sign with an elliptic-curve key returns an error
\* and no signature when the bit lengths of r, s and d are not pairwise within
\* 1 bit of each other, and the signature when they are
C26_SanityBits ==
    CurveSignCall =>
        IF PairwiseWithinOne(prim.rnd.rBits, prim.rnd.sBits, prim.s.privateKey.dBits)
        THEN prim.err = NoError /\ prim.sig # NilSignature
        ELSE prim.err # NoError /\ prim.sig = NilSignature

\* C26: Sign with an elliptic-curve key returns an error and no signature when
\* the lengths of r, s and the private scalar d, counted in 64-bit words, are
\* not pairwise within 1 of each other, and the signature when they are.
C26_SanityWords ==
    CurveSignCall =>
        IF PairwiseWithinOne(WordLen(prim.rnd.rBits), WordLen(prim.rnd.sBits),
                             WordLen(prim.s.privateKey.dBits))
        THEN prim.err = NoError /\ prim.sig # NilSignature
        ELSE prim.err = ErrSanity /\ prim.sig = NilSignature

\* a P-256 key, an r of one word and an s of four words: the call fails
C26_Witness ==
    /\ CurveSignCall /\ prim.s.alg.Name = "ES256"
    /\ prim.rnd = [rBits |-> 64, sBits |-> 256]
    /\ prim.err = ErrSanity /\ prim.sig = NilSignature

\* ---- C27 ----
\* C27: while Encode and Decode calls run on the shared Encoding in any
\* interleaving of their steps, the message (its Headers and content, its
\* signers with their Headers, keys and algorithms) and the bytes are what
\* each call was given when it began, and each finished call returns what
\* Encode or Decode returns for what it was given, the outcome of the random
\* source being the same.
C27_CallsDoNotInteract ==
    \A p \in Callers :
        inflight[p].pc # "idle" =>
            /\ msg = inflight[p].given.msg
            /\ wire = inflight[p].given.wire
            /\ (inflight[p].pc = "done" /\ inflight[p].op = "Encode")
               => inflight[p].res = EncodeWithExternal(inflight[p].given.msg,
                                                       inflight[p].external, inflight[p].rnd)
            /\ (inflight[p].pc = "done" /\ inflight[p].op = "Decode")
               => inflight[p].res \in DecodeWithExternal(inflight[p].given.wire,
                                                         inflight[p].external,
                                                         inflight[p].config)

\* two Encode calls of a single-signer message with headers of its own and of
\* its signer are between their first and their last step at the same time,
\* with different external data
C27_Witness ==
    /\ msg.kind = "Sign1"
    /\ msg.Headers # NewHeaders /\ msg.signer.Headers # NewHeaders
    /\ inflight[1].pc = "Sign" /\ inflight[2].pc = "Merge"
    /\ inflight[1].external # inflight[2].external

\* ---- C28 ----
\* Decode returned a message
DecodedMessage == dec.called /\ dec.res.kind # "nil"

\* the label is carried in the protected header bytes of the message body
\* with a value GetProtected reports as v (an algorithm number by its name)
CarriedProtected(l, v) ==
    /\ wire.Protected.form = "map"
    /\ MarshalValue(EntryOf(l)) \in DOMAIN wire.Protected.m
    /\ \/ UnmarshalValue(wire.Protected.m[MarshalValue(EntryOf(l))]) = v
       \/ AlgReadBack(UnmarshalValue(wire.Protected.m[MarshalValue(EntryOf(l))])) = v

\* C28: in the Headers of a decoded message every value GetProtected returns
\* is carried under that label in the protected header bytes of the message;
\* a label carried only in the unprotected map is not reported as protected.
C28_ProtectedIsSigned ==
    DecodedMessage =>
        \A l \in HeaderLabels :
            (GetProtected(dec.res.Headers, l).err = NoError
             /\ GetProtected(dec.res.Headers, l).v # GoNil)
            => CarriedProtected(l, GetProtected(dec.res.Headers, l).v)

\* the critical label was put into the unprotected map of a single-signer
\* message: the signature verifies and GetProtected reports the label
C28_Witness ==
    /\ DecodedMessage /\ dec.res.kind = "Sign1" /\ dec.res.err = NoError
    /\ MarshalValue(GoInt64(2)) \in DOMAIN wire.Unprotected
    /\ MarshalValue(GoInt64(2)) \notin DOMAIN wire.Protected.m
    /\ GetProtected(dec.res.Headers, GoString("crit")).v = GoString("x")
    /\ GoInt64(2) \notin DOMAIN dec.res.Headers.unprotected


\* C29: Encode of a Sign1Message whose signer is nil (SetSigner never called,
\* or called with nil) ends with an error value and no output bytes, and it
\* does not crash
EncodedWithoutSigner == enc.called /\ msg.kind = "Sign1" /\ msg.signer = NilSigner

C29_NoSignerError ==
    EncodedWithoutSigner =>
        /\ enc.res.err # NoError
        /\ enc.res.data = NoData
        /\ ~enc.res.panicked

\* Encode ran on a Sign1Message without a signer, with content set
C29_Witness ==
    /\ EncodedWithoutSigner
    /\ msg.content # ""
    /\ enc.res.panicked
    /\ enc.res.err = NoError


\* ---- C30 ----
\* signature entry i of the data verifies under the Config of the Decode call:
\* its headers parse and one of the verifiers returned for it accepts
SignatureVerifies(i) ==
    /\ \A sh \in newHeaders(wire.Signatures[i].Protected, wire.Signatures[i].Unprotected) :
        sh.err = NoError
    /\ SignatureError(i) = NoError

\* the signatures that verified before Decode returned: those ahead of the
\* first entry that does not verify
VerifiedBeforeReturn ==
    LET n == Len(wire.Signatures)
        bad == {i \in 1..n : ~SignatureVerifies(i)}
    IN  IF bad = {} THEN n ELSE (CHOOSE i \in bad : \A j \in bad : i <= j) - 1

\* a multi-signer Decode ran its loop with a Config whose Verified is set
MultiDecodeWithVerified ==
    /\ dec.called /\ dec.res.kind = "Sign"
    /\ ~dec.config.isNil /\ dec.config.verified

\* C30: during a multi-signer Decode the Verified callback is invoked once for
\* each signature that verified, in wire order, and never for a signature at or
\* after the first failing one: the Verified calls are exactly those for the
\* signatures ahead of the first failing one, so a Decode that ends with an
\* error has made them before it returned.
C30_VerifiedInWireOrder ==
    MultiDecodeWithVerified =>
        LET reported == CallsOf("Verified")
        IN  /\ Len(reported) = VerifiedBeforeReturn
            /\ \A k \in 1..Len(reported) :
                /\ reported[k].sig = k
                /\ Called("Verify", k, NoError)
            /\ (dec.res.err # NoError) <=> (VerifiedBeforeReturn < Len(wire.Signatures))

\* two signatures, the first verifies and the second fails: Decode ends with an
\* error after one Verified call, made for the first signature
C30_Witness ==
    /\ MultiDecodeWithVerified
    /\ Len(wire.Signatures) = 2
    /\ SignatureVerifies(1) /\ ~SignatureVerifies(2)
    /\ dec.res.err # NoError
    /\ Len(CallsOf("Verified")) = 1
    /\ CallsOf("Verified")[1].sig = 1

====
